---- MODULE Spec2Model ----
(***************************************************************************)
(* The incremental index engine of mana (src/mana/rag/database.py): the    *)
(* three persisted artifacts (vectors.faiss, chunks.pkl, metadata.json),   *)
(* build_vector_database with its diff against the metadata, the parallel  *)
(* ingestion, the embedding of the new entries, the merge, and             *)
(* save_vector_database writing the three artifacts one after the other;   *)
(* search_vector_database over the loaded store, the process-wide encoder  *)
(* of embeddings.py, the InitializationManager of init_manager.py, the     *)
(* key loop of run_tui (ui/tui.py) over that manager, the scan of the man  *)
(* directories (manpage/discovery.py) and the summary extraction of        *)
(* manpage/parser.py.                                                      *)
(*                                                                         *)
(* Identifiers are the numbers 1..NumPrograms (their numeric order is the  *)
(* order sorted() gives).  The man page text of program p is named by the  *)
(* edition of the manual it was read from (0..MaxVersion).  A vector names *)
(* the text the encoder was given and whether normalize_L2 has been        *)
(* applied to it.                                                          *)
(***************************************************************************)
EXTENDS Integers, Sequences, FiniteSets, TLC

\* Bounds of the model.
NumPrograms == 3
MaxVersion == 1
\* the number of texts encoded between two "embedding" events
BatchSize == 2
\* the build threads one manager makes, the subscribers it has, and the
\* progress calls of one init_fn
MaxThreads == 2
NumSubscribers == 2
MaxProgress == 2
\* the calls of mark_complete the invoking side makes
MaxMarks == 1
\* the calls of get_embedding_model one thread makes, and the largest
\* top_k a search is made with
MaxCalls == 2
MaxTopK == 4
\* the directory entries of one scan of the man directories
MaxFiles == 3
\* the lines of a man page text, and the lines at its head that the format
\* test and the fallback look at (20 in parser.py)
MaxLines == 4
HeadLines == 2

Programs == 1..NumPrograms
Versions == 0..MaxVersion

\* A build is a call with a progress_callback (the calls of cli.py lines
\* 123-128 and 150-155) unless its mode says otherwise (run.mode: verbose
\* and quiet calls have none); run.events are the events the callback
\* receives.
VARIABLES
    faissFile,    \* FAISS_INDEX_FILE: [exists, rows]  rows = the vectors of the flat index
    chunksFile,   \* CHUNKS_FILE:      [exists, chunks]
    metaFile,     \* METADATA_FILE:    [exists, programs]
    corrupt,      \* the artifacts whose bytes do not parse (a subset of Artifacts)
    pc,           \* position of the build: "idle", inside save_vector_database, "returned", "crashed"
    run,          \* locals of the current build_vector_database call
    last,         \* the previous call, where the caller keeps track: [returned, live]
    rpc,          \* position of a reader inside load_vector_database
    rd,           \* what the reader has read so far, and the whole snapshots it may return
    mgr,          \* InitializationManager: [status, lock, thread, callbacks]
    thr,          \* the build threads start_initialization has made, each in run_init
    ui,           \* the invoking side: where it is, and what it was last answered
    enc,          \* _EMBEDDING_MODEL of one process, and the callers inside get_embedding_model
    srch,         \* the last call of search_vector_database: its arguments and what it gave
    calc          \* the last call of a function of the man page modules, and its result

vars == <<faissFile, chunksFile, metaFile, corrupt, pc, run, last, rpc, rd, mgr, thr, ui, enc, srch, calc>>
\* everything but the manager
storeVars ==
    <<faissFile, chunksFile, metaFile, corrupt, pc, run, last, rpc, rd, enc, srch, calc>>
disk == <<faissFile, chunksFile, metaFile, corrupt>>

Artifacts == {"index", "chunks", "meta"}

----------------------------------------------------------------------------
\* Helpers on sequences and sets.

Range(s) == {s[i] : i \in 1..Len(s)}

RECURSIVE SetToSortedSeq(_)
\* sorted(S) for a set of identifiers
SetToSortedSeq(S) ==
    IF S = {} THEN <<>>
    ELSE LET m == CHOOSE x \in S : \A y \in S : x <= y
         IN  <<m>> \o SetToSortedSeq(S \ {m})

RECURSIVE KeepAt(_, _, _)
\* the elements of s at the positions in I, in order, from position i on
KeepAt(s, I, i) ==
    IF i > Len(s) THEN <<>>
    ELSE (IF i \in I THEN <<s[i]>> ELSE <<>>) \o KeepAt(s, I, i + 1)

\* every ordering of the set S (the orders as_completed can yield)
Orderings(S) ==
    {o \in [1..Cardinality(S) -> S] : \A i, j \in 1..Cardinality(S) : i # j => o[i] # o[j]}

ProgramsOf(chunks) == {chunks[i].program : i \in 1..Len(chunks)}

RECURSIVE Insert(_, _)
\* x put into the sorted sequence s at its place
Insert(x, s) ==
    IF s = <<>> THEN <<x>>
    ELSE IF x <= Head(s) THEN <<x>> \o s
    ELSE <<Head(s)>> \o Insert(x, Tail(s))

RECURSIVE Sorted(_)
\* sorted(s) for a list of identifiers, duplicates kept
Sorted(s) == IF s = <<>> THEN <<>> ELSE Insert(Head(s), Sorted(Tail(s)))

----------------------------------------------------------------------------
\* The text encoder and the neighbor index, as far as the store sees them.

\* embedding_model.encode: one raw vector per text, order preserved
Encode(texts) == [i \in 1..Len(texts) |-> [of |-> texts[i], unit |-> FALSE]]

\* faiss.normalize_L2, in place on every row
NormalizeL2(rows) == [i \in 1..Len(rows) |-> [rows[i] EXCEPT !.unit = TRUE]]

\* the vector the store should hold for a chunk
VectorOf(chunk) == [of |-> <<chunk.program, chunk.text>>, unit |-> TRUE]

\* existing_embeddings is either None or a matrix of rows
None == [isNone |-> TRUE, rows |-> <<>>]
Matrix(rows) == [isNone |-> FALSE, rows |-> rows]

----------------------------------------------------------------------------
\* Reading the store.

\* load_vector_database: None unless both files exist (line 27) and both
\* parse (the except clause of lines 39-41); the metadata is not looked at
LoadVectorDatabase ==
    IF ~faissFile.exists \/ ~chunksFile.exists
    THEN [ok |-> FALSE, index |-> <<>>, chunks |-> <<>>]
    ELSE IF "index" \in corrupt \/ "chunks" \in corrupt
    THEN [ok |-> FALSE, index |-> <<>>, chunks |-> <<>>]
    ELSE [ok |-> TRUE, index |-> faissFile.rows, chunks |-> chunksFile.chunks]

\* get_indexed_programs: the metadata's program list, [] without metadata
\* (line 46) or with metadata that does not parse (lines 53-54)
GetIndexedPrograms ==
    IF ~metaFile.exists \/ "meta" \in corrupt THEN <<>> ELSE metaFile.programs

----------------------------------------------------------------------------
\* build_vector_database, up to the call of save_vector_database.

\* LoadExisting with the force flag not consulted: a forced build diffs too
LoadExistingIgnoringForce(force, recOk) ==
    LET progs == GetIndexedPrograms
        db    == LoadVectorDatabase
    IN  IF progs = <<>> \/ ~db.ok
        THEN [programs |-> progs, chunks |-> <<>>, emb |-> None]
        ELSE [programs |-> progs, chunks |-> db.chunks,
              emb |-> IF recOk THEN Matrix(db.index) ELSE None]

\* LoadExisting with the loaded chunks and vectors kept under force
LoadExistingKeepingChunks(force, recOk) ==
    LET progs == IF force THEN <<>> ELSE GetIndexedPrograms
        db    == LoadVectorDatabase
    IN  IF ~db.ok
        THEN [programs |-> progs, chunks |-> <<>>, emb |-> None]
        ELSE [programs |-> progs, chunks |-> db.chunks,
              emb |-> IF recOk THEN Matrix(db.index) ELSE None]

\* lines 115-136: the existing store as the build sees it.  recOk says whether
\* reconstructing the vectors from the loaded index succeeded (lines 128-136).
LoadExisting(force, recOk) ==
    LET progs == IF force THEN <<>> ELSE GetIndexedPrograms
        db    == LoadVectorDatabase
    IN  IF force \/ progs = <<>> \/ ~db.ok
        THEN [programs |-> progs, chunks |-> <<>>, emb |-> None]
        ELSE [programs |-> progs, chunks |-> db.chunks,
              emb |-> IF recOk THEN Matrix(db.index) ELSE None]

\* NewPrograms with every live identifier ingested again
NewProgramsAll(live, existing_programs) == live

\* line 141: the identifiers to ingest
NewPrograms(live, existing_programs) == live \ Range(existing_programs)

\* line 142: the identifiers to drop
RemovedPrograms(live, existing_programs) == Range(existing_programs) \ live

\* lines 163-180: drop the chunks of removed programs and their vectors.
\* existing_embeddings[i] raises IndexError when a kept chunk sits at a
\* position the index has no row for.
FilterRemoved(ex, removed) ==
    LET keep == {i \in 1..Len(ex.chunks) : ex.chunks[i].program \notin removed}
        rows == IF ex.emb.isNone THEN <<>> ELSE KeepAt(ex.emb.rows, keep, 1)
    IN  IF removed = {}
        THEN [programs |-> ex.programs, chunks |-> ex.chunks, emb |-> ex.emb,
              raised |-> FALSE]
        ELSE [programs |-> SelectSeq(ex.programs, LAMBDA p : p \notin removed),
              chunks   |-> KeepAt(ex.chunks, keep, 1),
              emb      |-> IF rows = <<>> THEN None ELSE Matrix(rows),
              raised   |-> ~ex.emb.isNone /\ \E i \in keep : i > Len(ex.emb.rows)]

\* How a build is called: with a progress_callback, without one and
\* verbose, or without one and not verbose.
Modes == {"callback", "verbose", "quiet"}

\* ReturnsUpToDate where the verbose branch returns as soon as nothing is
\* new
ReturnsUpToDateNothingNew(mode, added, removed) ==
    IF mode = "verbose"
    THEN added = {}
    ELSE added = {} /\ removed = {}

\* lines 144-158: whether the build returns because the store is up to
\* date; the branch of line 144 is taken without a callback when verbose,
\* the elif of line 154 otherwise
ReturnsUpToDate(mode, added, removed) ==
    IF mode = "verbose"
    THEN IF added # {} THEN FALSE
         ELSE IF removed = {} THEN TRUE ELSE FALSE
    ELSE added = {} /\ removed = {}

\* lines 115-196: what the build decides before it ingests anything.
\*   "up_to_date"   lines 154-158: nothing added, nothing removed
\*   "filter_raised" the removal filter raised IndexError
\*   "removal_only" lines 183-191: save the filtered store and return
\*   "nothing"      lines 193-196: no identifier to ingest
\*   "ingest"       go on to lines 198-319 with `programs`
ReconcileIn(mode, live, force, recOk) ==
    LET ex0     == LoadExisting(force, recOk)
        diffed  == ex0.programs # <<>>
        added   == IF diffed THEN NewPrograms(live, ex0.programs) ELSE live
        removed == IF diffed THEN RemovedPrograms(live, ex0.programs) ELSE {}
        ex      == FilterRemoved(ex0, removed)
        step    == IF diffed /\ ReturnsUpToDate(mode, added, removed) THEN "up_to_date"
                   ELSE IF ex.raised THEN "filter_raised"
                   ELSE IF removed # {} /\ added = {} /\ ~ex.emb.isNone THEN "removal_only"
                   ELSE IF added = {} THEN "nothing"
                   ELSE "ingest"
        kept    == IF step = "up_to_date" THEN ex0 ELSE ex
    IN  [mode |-> mode,
         step |-> step, diffed |-> diffed, added |-> added, removed |-> removed,
         recFailed |-> ~force /\ ex0.programs # <<>> /\ LoadVectorDatabase.ok /\ ~recOk,
         existing_programs |-> kept.programs, existing_chunks |-> kept.chunks,
         existing_embeddings |-> kept.emb]

\* the build of cli.py lines 123-128 and 150-155, called with a callback
Reconcile(live, force, recOk) == ReconcileIn("callback", live, force, recOk)

\* What becomes of one call of process_program (discovery.py lines 125-164):
\* the program is not in the cache, `man` exits with a code other than 0,
\* prints nothing, runs into the timeout, subprocess.run raises something
\* else, or `man` prints the page.
Fates == {"absent", "nonzero", "empty", "timeout", "exception", "ok"}

\* the result None, and the result (program, text)
NoPage == [isNone |-> TRUE, program |-> 0, text |-> 0, raised |-> FALSE]
Page(program, text) == [isNone |-> FALSE, program |-> program, text |-> text, raised |-> FALSE]

\* ProcessProgram without the except clause of lines 160-161
ProcessProgramPropagating(program, fate, ver) ==
    IF fate = "absent" THEN NoPage
    ELSE IF fate \in {"timeout", "exception"} THEN [NoPage EXCEPT !.raised = TRUE]
    ELSE IF fate = "ok" THEN Page(program, ver)
    ELSE NoPage

\* process_program(program, cache) where `man` would print edition ver
ProcessProgram(program, fate, ver) ==
    IF fate = "absent" THEN NoPage
    ELSE IF fate \in {"timeout", "exception"} THEN NoPage
    ELSE IF fate = "ok" THEN Page(program, ver)
    ELSE NoPage

\* the sets of identifiers that resolve, over what may become of each call
ResolvedSets(programs) ==
    {{p \in programs : ~ProcessProgram(p, f[p], 0).isNone} : f \in [programs -> Fates]}

\* lines 207-229: the completions of the worker pool for `programs`: those
\* that resolve (process_program returns None for the others, line 219), in
\* any order, each with the text `man` printed: the man pages read by one
\* build are all of one edition.
Completions(programs) ==
    UNION {
        UNION { { [i \in 1..Len(o) |-> [program |-> o[i], text |-> ver]]
                  : ver \in Versions }
                : o \in Orderings(R) }
        : R \in ResolvedSets(programs) }

\* lines 240-263: one chunk per resolved man page, in completion order
NewChunks(done) == done

\* line 274: the texts handed to the encoder, named by program and edition
\* (the prefix of MAX_TEXT_LENGTH characters is a function of the text)
TextsToEmbed(new_chunks) ==
    [i \in 1..Len(new_chunks) |-> <<new_chunks[i].program, new_chunks[i].text>>]

RECURSIVE EncodedInBatches(_)
\* lines 280-289: the texts encoded batch by batch, the batches stacked
EncodedInBatches(texts) ==
    IF Len(texts) <= BatchSize THEN Encode(texts)
    ELSE Encode(SubSeq(texts, 1, BatchSize))
         \o EncodedInBatches(SubSeq(texts, BatchSize + 1, Len(texts)))

\* lines 279-290: in batches with a callback, in one call without
EncodeIn(mode, texts) ==
    IF mode = "callback" THEN EncodedInBatches(texts) ELSE Encode(texts)

\* lines 271-294: the vectors of the new chunks only
NewEmbeddings(mode, new_chunks) == EncodeIn(mode, TextsToEmbed(new_chunks))

\* line 297
AllChunks(existing_chunks, new_chunks) == existing_chunks \o new_chunks

\* AllPrograms with the existing identifiers forgotten
AllProgramsNewOnly(existing_programs, new_chunks) ==
    SetToSortedSeq(ProgramsOf(new_chunks))

\* line 298: new_programs are the resolved identifiers
AllPrograms(existing_programs, new_chunks) ==
    SetToSortedSeq(Range(existing_programs) \cup ProgramsOf(new_chunks))

\* lines 300-307
AllEmbeddings(existing_embeddings, new_embeddings) ==
    IF ~existing_embeddings.isNone /\ Len(existing_embeddings.rows) > 0
    THEN IF Len(new_embeddings) > 0
         THEN existing_embeddings.rows \o new_embeddings
         ELSE existing_embeddings.rows
    ELSE new_embeddings

\* lines 294, 307 and 68: with no new chunk and no usable existing matrix the
\* matrix handed to save is np.array([]).reshape(0, d), a float64 array, on
\* which faiss.normalize_L2 may raise before anything is written.
SavesEmptyFloat64(existing_embeddings, new_chunks) ==
    new_chunks = <<>> /\
    (existing_embeddings.isNone \/ Len(existing_embeddings.rows) = 0)

----------------------------------------------------------------------------
\* The progress events of a build: progress_callback(stage, current, total, _).

\* the events a build in this mode sends: those of a build without a
\* callback are printed, or dropped, instead
Sent(mode, events) == IF mode = "callback" THEN events ELSE <<>>

Event(stage, current, total) ==
    [stage |-> stage, current |-> current, total |-> total]

\* line 111: get_all_executables has returned `programs`
DiscoveryEvents(programs) ==
    <<Event("discovery", Cardinality(programs), Cardinality(programs))>>

\* line 226: one event per completed future, resolved or not
ScanningEvents(n) == [i \in 1..n |-> Event("scanning", i, n)]

\* line 266: one event per man page made into a chunk
ExtractingEvents(k) == [i \in 1..k |-> Event("extracting", i, k)]

Min(a, b) == IF a <= b THEN a ELSE b

\* line 283: the number of batches for k texts
NumBatches(k) == (k + BatchSize - 1) \div BatchSize

\* EmbeddingEvents counting whole batches: i + batch_size without the min
EmbeddingEventsWholeBatches(k, n) ==
    [j \in 1..n |-> Event("embedding", j * BatchSize, k)]

\* line 287: one event after each of the first n batches of k texts
EmbeddingEvents(k, n) ==
    [j \in 1..n |-> Event("embedding", Min(j * BatchSize, k), k)]

\* lines 185 and 316
SavingEvents == <<Event("saving", 0, 1)>>

\* CompleteEvents with the numbers run_init reports (init_manager.py line 112)
CompleteEventsOneOfOne(n) == <<Event("complete", 1, 1)>>

\* CompleteEvents with the event sent a second time
CompleteEventsTwice(n) == <<Event("complete", n, n), Event("complete", n, n)>>

\* lines 157, 188 and 319: n is the length of the identifier list
CompleteEvents(n) == <<Event("complete", n, n)>>

----------------------------------------------------------------------------
\* The state.

\* the artifacts of a store that was never built
NoIndex  == [exists |-> FALSE, rows |-> <<>>]
NoChunks == [exists |-> FALSE, chunks |-> <<>>]
NoMeta   == [exists |-> FALSE, programs |-> <<>>]

\* locals of a build that has not run
NoRun ==
    [mode |-> "none",
     live |-> {}, force |-> FALSE, recFailed |-> FALSE, encFailed |-> FALSE,
     outcome |-> "none",
     path |-> "none", added |-> {}, removed |-> {},
     existing_programs |-> <<>>, existing_chunks |-> <<>>, existing_embeddings |-> None,
     new_chunks |-> <<>>, encoded |-> <<>>,
     chunks |-> <<>>, rows |-> <<>>, programs |-> <<>>,
     events |-> <<>>,
     pre |-> <<NoIndex, NoChunks, NoMeta, {}>>]

\* no previous call
NoLast == [returned |-> FALSE, live |-> {}]

\* a reader that has read nothing: what load_vector_database has in hand
\* (ok = FALSE stands for None), whether an exception left the call, and
\* the list get_indexed_programs returned
NoRead ==
    [index |-> <<>>, ok |-> FALSE, chunks |-> <<>>, seen |-> {},
     raised |-> FALSE, programs |-> <<>>]

\* InitStatus (init_manager.py lines 20-27), without the message; error says
\* whether the status carries the text of an exception (FALSE is None)
InitStatus(stage, current, total) ==
    [stage |-> stage, current |-> current, total |-> total, error |-> FALSE]

\* the handler of run_init reporting the run as done
ErrorStatusAsComplete == InitStatus("complete", 1, 1)

\* line 114: _update_status(InitStage.ERROR, "Initialization failed", error=str(e))
ErrorStatus == [InitStatus("error", 0, 0) EXCEPT !.error = TRUE]

Threads == 1..MaxThreads
\* the threads that call get_embedding_model: the build thread (database.py
\* line 278) and the thread that searches (line 346)
Callers == {"build", "search"}
Subscribers == 1..NumSubscribers

\* lines 33-37: a manager just made; lock 0 is the free lock, thread 0 is None
NewManager ==
    [status |-> InitStatus("not_started", 0, 0), lock |-> 0, thread |-> 0,
     callbacks |-> <<>>]

\* a thread not yet made: where it is, the status _update_status was called
\* with and where it returns to, the callbacks it copied and has yet to
\* call, those it has called and those that raised, the status it passed
\* to the subscriber it called last, the progress calls of init_fn so far,
\* whether init_fn has sent "complete", and whether init_fn raised
NoThread ==
    [pc |-> "unborn", upd |-> InitStatus("not_started", 0, 0), after |-> "none",
     copy |-> <<>>, todo |-> <<>>, called |-> {}, raised |-> {},
     arg |-> InitStatus("not_started", 0, 0),
     emitted |-> 0, finished |-> FALSE, initRaised |-> FALSE]

\* the invoking side has asked nothing yet: where it is, what
\* start_initialization did for it last, whether a subscriber was
\* running when it last read the status, in the loop of run_tui what
\* is_complete last answered and the is_initializing of this round, and
\* of its calls of mark_complete how many it made, the subscribers the
\* current one has yet to call and the status it passed to the last one
NoRequest ==
    [pc |-> "idle", answer |-> "none", during |-> FALSE,
     complete |-> FALSE, initializing |-> FALSE,
     marks |-> 0, todo |-> <<>>, arg |-> InitStatus("not_started", 0, 0)]

\* embeddings.py line 10: no model yet (instance 0 is None), no constructor
\* has run, and no caller is inside get_embedding_model
NoEncoder ==
    [instance |-> 0, built |-> 0,
     callers |-> [c \in Callers |-> [pc |-> "out", made |-> 0, got |-> 0, calls |-> 0]]]

\* no search has been made
NoSearch ==
    [outcome |-> "none", top_k |-> 0, n |-> 0, results |-> <<>>,
     reported |-> FALSE, encoded |-> FALSE]

\* no function has been called
NoCall == [call |-> "none"]

Init ==
    /\ faissFile = NoIndex
    /\ chunksFile = NoChunks
    /\ metaFile = NoMeta
    /\ corrupt = {}
    /\ pc = "idle"
    /\ run = NoRun
    /\ last = NoLast
    /\ rpc = "idle"
    /\ rd = NoRead
    /\ mgr = NewManager
    /\ thr = [t \in Threads |-> NoThread]
    /\ ui = NoRequest
    /\ enc = NoEncoder
    /\ srch = NoSearch
    /\ calc = NoCall

\* what load_vector_database returns for a snapshot <<index file, chunks file>>
Loaded(snap) ==
    IF ~snap[1].exists \/ ~snap[2].exists
    THEN [ok |-> FALSE, index |-> <<>>, chunks |-> <<>>]
    ELSE [ok |-> TRUE, index |-> snap[1].rows, chunks |-> snap[2].chunks]

----------------------------------------------------------------------------
\* build_vector_database (lines 92-323).

\* the locals common to every path of a build started now
BaseRun(live, force, r) ==
    [NoRun EXCEPT
        !.mode = r.mode,
        !.live = live, !.force = force,
        !.recFailed = r.recFailed,
        !.added = r.added, !.removed = r.removed,
        !.existing_programs = r.existing_programs,
        !.existing_chunks = r.existing_chunks,
        !.existing_embeddings = r.existing_embeddings,
        !.events = Sent(r.mode, DiscoveryEvents(live)),
        !.pre = disk]

\* the positions between the writes of save_vector_database
SavePositions == {"write_index", "write_chunks", "write_meta"}

\* the snapshot <<index file, chunks file>> a save is about to put on disk
NewSnapshot(r) ==
    <<[exists |-> TRUE, rows |-> r.rows], [exists |-> TRUE, chunks |-> r.chunks]>>

\* lines 57-69 of save_vector_database: the arguments, the rows normalized
\* and added to a fresh flat index; the three writes follow one by one.
EnterSave(base, path, chunks, embeddings, programs) ==
    /\ run' = [base EXCEPT !.outcome = "saving", !.path = path,
                           !.chunks = chunks, !.rows = NormalizeL2(embeddings),
                           !.programs = programs,
                           !.events = @ \o Sent(base.mode, SavingEvents)]
    /\ pc' = "write_index"

\* the build returns, or an exception leaves it, without a write
Return(base, outcome) ==
    /\ run' = [base EXCEPT !.outcome = outcome]
    /\ pc' = "returned"

\* Ingested with the "extracting" events sent before the "scanning" ones
IngestedExtractingFirst(base, done, encOk) ==
    [base EXCEPT !.new_chunks = NewChunks(done),
                 !.encoded = TextsToEmbed(NewChunks(done)),
                 !.encFailed = NewChunks(done) # <<>> /\ ~encOk,
                 !.events = @ \o Sent(base.mode,
                                       ExtractingEvents(Len(done))
                                       \o ScanningEvents(Cardinality(base.added)))]

\* lines 198-274: the locals once the futures have completed (done) and the
\* chunks are made.  encOk says whether loading the model and encoding
\* succeed.
Ingested(base, done, encOk) ==
    [base EXCEPT !.new_chunks = NewChunks(done),
                 !.encoded = TextsToEmbed(NewChunks(done)),
                 !.encFailed = NewChunks(done) # <<>> /\ ~encOk,
                 !.events = @ \o Sent(base.mode,
                                       ScanningEvents(Cardinality(base.added))
                                       \o ExtractingEvents(Len(done)))]

\* lines 278-290: the events of the batches encoded so far
Embedded(b, batches) ==
    [b EXCEPT !.events = @ \o Sent(b.mode, EmbeddingEvents(Len(b.new_chunks), batches))]

\* Ingest with the retained store saved before the encoder is called
IngestSavingFirst(base, done, encOk, emptyRaises) ==
    LET b == Ingested(base, done, encOk)
        k == Len(b.new_chunks)
    IN  IF done = <<>> /\ base.existing_chunks = <<>>
        THEN Return(b, "no_programs")
        ELSE IF b.encFailed
        THEN EnterSave(b, "merge", base.existing_chunks,
                       AllEmbeddings(base.existing_embeddings, <<>>),
                       base.existing_programs)
        ELSE IF SavesEmptyFloat64(base.existing_embeddings, b.new_chunks) /\ emptyRaises
        THEN Return(Embedded(b, NumBatches(k)), "save_raised")
        ELSE EnterSave(Embedded(b, NumBatches(k)), "merge",
                       AllChunks(base.existing_chunks, b.new_chunks),
                       AllEmbeddings(base.existing_embeddings, NewEmbeddings(b.mode, b.new_chunks)),
                       AllPrograms(base.existing_programs, b.new_chunks))

\* lines 198-319: ingestion, embedding, merge, and the call of save.  An
\* exception of get_embedding_model or of encode leaves the build, after
\* any number of batches; emptyRaises says whether normalize_L2 refuses the
\* empty float64 matrix (the "saving" event is sent before it does).
Ingest(base, done, encOk, emptyRaises) ==
    LET b == Ingested(base, done, encOk)
        k == Len(b.new_chunks)
    IN  IF done = <<>> /\ base.existing_chunks = <<>>
        THEN Return(b, "no_programs")
        ELSE IF b.encFailed
        THEN \E batches \in 0..(NumBatches(k) - 1) :
                Return(Embedded(b, batches), "encoder_raised")
        ELSE IF SavesEmptyFloat64(base.existing_embeddings, b.new_chunks) /\ emptyRaises
        THEN Return([Embedded(b, NumBatches(k))
                        EXCEPT !.events = @ \o Sent(b.mode, SavingEvents)],
                    "save_raised")
        ELSE EnterSave(Embedded(b, NumBatches(k)), "merge",
                       AllChunks(base.existing_chunks, b.new_chunks),
                       AllEmbeddings(base.existing_embeddings, NewEmbeddings(b.mode, b.new_chunks)),
                       AllPrograms(base.existing_programs, b.new_chunks))

\* lines 92-319 up to the first write of save, or to the return: what a
\* call does to its locals
Built(mode, live, force, recOk) ==
    /\ pc = "idle"
    /\ LET r    == ReconcileIn(mode, live, force, recOk)
           base == BaseRun(live, force, r)
       IN  CASE r.step = "up_to_date" ->
                    Return([base EXCEPT !.events =
                                @ \o Sent(mode, CompleteEvents(Len(r.existing_programs)))],
                           r.step)
             [] r.step \in {"filter_raised", "nothing"} ->
                    Return(base, r.step)
             [] r.step = "removal_only" ->
                    EnterSave(base, "removal_only", r.existing_chunks,
                              r.existing_embeddings.rows, r.existing_programs)
             [] r.step = "ingest" ->
                    \E done \in Completions(r.added), encOk, emptyRaises \in BOOLEAN :
                        Ingest(base, done, encOk, emptyRaises)

\* a call of build_vector_database in one of the three modes
StartBuildIn(mode, live, force, recOk) ==
    /\ Built(mode, live, force, recOk)
    /\ UNCHANGED <<faissFile, chunksFile, metaFile, corrupt, last, rpc, rd, mgr, thr, ui, enc, srch, calc>>

\* the build of cli.py lines 123-128 and 150-155, called with a callback
StartBuild(live, force, recOk) == StartBuildIn("callback", live, force, recOk)

\* line 72: faiss.write_index
WriteIndex ==
    /\ pc = "write_index"
    /\ faissFile' = [exists |-> TRUE, rows |-> run.rows]
    /\ corrupt' = corrupt \ {"index"}
    /\ pc' = "write_chunks"
    /\ UNCHANGED <<chunksFile, metaFile, run, last, rpc, rd, mgr, thr, ui, enc, srch, calc>>

\* lines 75-76: pickle.dump(chunks)
WriteChunks ==
    /\ pc = "write_chunks"
    /\ chunksFile' = [exists |-> TRUE, chunks |-> run.chunks]
    /\ corrupt' = corrupt \ {"chunks"}
    /\ pc' = "write_meta"
    /\ UNCHANGED <<faissFile, metaFile, run, last, rpc, rd, mgr, thr, ui, enc, srch, calc>>

\* lines 78-87: the metadata, written last; then save returns and the
\* build sends "complete" (lines 188 and 319) and returns
MetaWritten ==
    /\ pc = "write_meta"
    /\ metaFile' = [exists |-> TRUE, programs |-> Sorted(run.programs)]
    /\ corrupt' = corrupt \ {"meta"}
    /\ pc' = "returned"
    /\ run' = [run EXCEPT !.outcome = "saved",
                          !.events = @ \o Sent(run.mode, CompleteEvents(Len(run.programs)))]

\* the last write of a build that no manager follows
WriteMeta ==
    /\ MetaWritten
    /\ UNCHANGED <<faissFile, chunksFile, last, rpc, rd, mgr, thr, ui, enc, srch, calc>>

\* the outcomes with which the call returns; with the others an exception leaves it
Returned(outcome) == outcome \in {"up_to_date", "nothing", "no_programs", "saved"}

\* the call is over: its locals are gone, the caller may start the next one.
\* A caller that runs builds in a row (remember) keeps the live set of an
\* incremental build that returned.
Finish(remember) ==
    /\ pc = "returned"
    /\ pc' = "idle"
    /\ run' = NoRun
    /\ last' = IF remember /\ Returned(run.outcome) /\ ~run.force
               THEN [returned |-> TRUE, live |-> run.live]
               ELSE NoLast
    /\ UNCHANGED <<faissFile, chunksFile, metaFile, corrupt, rpc, rd, mgr, thr, ui, enc, srch, calc>>

\* the process dies inside save_vector_database, before one of its writes;
\* run keeps the locals it died with
Crash ==
    /\ pc \in SavePositions
    /\ pc' = "crashed"
    /\ run' = [run EXCEPT !.outcome = "crashed"]
    /\ UNCHANGED <<faissFile, chunksFile, metaFile, corrupt, last, rpc, rd, mgr, thr, ui, enc, srch, calc>>

\* a write of save_vector_database raises (the disk is full, the file cannot
\* be opened): the exception leaves save and the build.  The file being
\* written is left as it was, or cut short (cut) so that it no longer parses.
WriteFails ==
    /\ pc \in SavePositions
    /\ \E cut \in BOOLEAN :
          /\ faissFile' = IF cut /\ pc = "write_index"
                          THEN [exists |-> TRUE, rows |-> <<>>] ELSE faissFile
          /\ chunksFile' = IF cut /\ pc = "write_chunks"
                           THEN [exists |-> TRUE, chunks |-> <<>>] ELSE chunksFile
          /\ metaFile' = IF cut /\ pc = "write_meta"
                         THEN [exists |-> TRUE, programs |-> <<>>] ELSE metaFile
          /\ corrupt' = IF ~cut THEN corrupt
                        ELSE corrupt \cup {CASE pc = "write_index" -> "index"
                                             [] pc = "write_chunks" -> "chunks"
                                             [] pc = "write_meta" -> "meta"}
    /\ pc' = "returned"
    /\ run' = [run EXCEPT !.outcome = "write_raised"]
    /\ UNCHANGED <<last, rpc, rd, mgr, thr, ui, enc, srch, calc>>

\* the three artifacts exist and parse
Whole ==
    /\ faissFile.exists /\ chunksFile.exists /\ metaFile.exists
    /\ corrupt = {}

\* between two calls one artifact of a whole store is lost, or its bytes
\* are damaged so that it no longer parses: the failures the existence
\* tests and the except clauses of lines 27-41 and 46-54 are written for
Damage ==
    /\ pc = "idle"
    /\ rpc = "idle"
    /\ Whole
    /\ \E a \in Artifacts, lost \in BOOLEAN :
          /\ faissFile' = IF a # "index" THEN faissFile
                          ELSE IF lost THEN NoIndex ELSE [exists |-> TRUE, rows |-> <<>>]
          /\ chunksFile' = IF a # "chunks" THEN chunksFile
                           ELSE IF lost THEN NoChunks ELSE [exists |-> TRUE, chunks |-> <<>>]
          /\ metaFile' = IF a # "meta" THEN metaFile
                         ELSE IF lost THEN NoMeta ELSE [exists |-> TRUE, programs |-> <<>>]
          /\ corrupt' = IF lost THEN corrupt ELSE corrupt \cup {a}
    /\ UNCHANGED <<pc, run, last, rpc, rd, mgr, thr, ui, enc, srch, calc>>

----------------------------------------------------------------------------
\* A reader: load_vector_database (lines 25-41) called by search or by the
\* favorites view while a build may be saving.

\* the snapshots a load that starts now may rightly return: the one on disk,
\* or, inside a save, the one being replaced and the one being written
CurrentSnapshots ==
    IF pc \in SavePositions
    THEN {<<run.pre[1], run.pre[2]>>, NewSnapshot(run)}
    ELSE {<<faissFile, chunksFile>>}

\* the except clause left out: the exception leaves load_vector_database
ExceptPropagates(r) ==
    [r EXCEPT !.ok = FALSE, !.index = <<>>, !.chunks = <<>>, !.raised = TRUE]

\* lines 39-41: an exception inside the try block is caught, None is returned
Except(r) == [r EXCEPT !.ok = FALSE, !.index = <<>>, !.chunks = <<>>]

\* lines 27-32: the existence test and faiss.read_index (no build removes a
\* file, so a test that succeeds earlier succeeds at the read too)
LoadIndex ==
    /\ rpc = "idle"
    /\ IF ~faissFile.exists \/ ~chunksFile.exists
       THEN /\ rpc' = "loaded"
            /\ rd' = [NoRead EXCEPT !.seen = CurrentSnapshots]
       ELSE IF "index" \in corrupt
       THEN /\ rpc' = "loaded"
            /\ rd' = Except([NoRead EXCEPT !.seen = CurrentSnapshots])
       ELSE /\ rpc' = "read_chunks"
            /\ rd' = [NoRead EXCEPT !.index = faissFile.rows, !.ok = TRUE,
                                    !.seen = CurrentSnapshots]
    /\ UNCHANGED <<faissFile, chunksFile, metaFile, corrupt, pc, run, last, mgr, thr, ui, enc, srch, calc>>

\* LoadChunks with whatever pickle.load yields taken for the chunks
LoadChunksTrusting ==
    /\ rpc = "read_chunks"
    /\ rpc' = "loaded"
    /\ rd' = [rd EXCEPT !.chunks = chunksFile.chunks]
    /\ UNCHANGED <<faissFile, chunksFile, metaFile, corrupt, pc, run, last, mgr, thr, ui, enc, srch, calc>>

\* lines 35-38: pickle.load of the chunks, and the return of the pair
LoadChunks ==
    /\ rpc = "read_chunks"
    /\ rpc' = "loaded"
    /\ rd' = IF "chunks" \in corrupt
             THEN Except(rd)
             ELSE [rd EXCEPT !.chunks = chunksFile.chunks]
    /\ UNCHANGED <<faissFile, chunksFile, metaFile, corrupt, pc, run, last, mgr, thr, ui, enc, srch, calc>>

\* get_indexed_programs (lines 44-54) called on its own
ReadMeta ==
    /\ rpc = "idle"
    /\ rpc' = "listed"
    /\ rd' = [NoRead EXCEPT !.programs = GetIndexedPrograms]
    /\ UNCHANGED <<faissFile, chunksFile, metaFile, corrupt, pc, run, last, mgr, thr, ui, enc, srch, calc>>

\* the caller has used the result
LoadDone ==
    /\ rpc \in {"loaded", "listed"}
    /\ rpc' = "idle"
    /\ rd' = NoRead
    /\ UNCHANGED <<faissFile, chunksFile, metaFile, corrupt, pc, run, last, mgr, thr, ui, enc, srch, calc>>

----------------------------------------------------------------------------
\* InitializationManager (src/mana/init_manager.py).  init_fn is the build as
\* the manager sees it (cli.py lines 123-128 and 150-155): it calls
\* progress_callback some times, "complete" being the last thing it does
\* before it returns (database.py lines 156-158, 188-191 and 318-319), and
\* then returns, or it raises.

\* Thread.is_alive
IsAlive(t) == thr[t].pc \notin {"unborn", "done"}

\* line 83
AlreadyRunning == mgr.thread # 0 /\ IsAlive(mgr.thread)

\* lines 89-98: the stage a progress stage is shown as
StageMap(stage) ==
    CASE stage = "discovery" -> "checking_index"
      [] stage = "complete" -> "complete"
      [] OTHER -> "building_index"

ProgressStages ==
    {"discovery", "scanning", "extracting", "embedding", "saving", "complete"}

\* a thread that has ended; what is kept of it is whether init_fn raised
DeadThread == [NoThread EXCEPT !.pc = "done"]

\* thread t calls _update_status(status) and goes on at `after` when it returns
CallUpdateStatus(t, status, after) ==
    [thr EXCEPT ![t] = [@ EXCEPT !.pc = "upd_lock", !.upd = status, !.after = after,
                                 !.copy = <<>>, !.todo = <<>>,
                                 !.called = {}, !.raised = {}]]

\* StartCheck with the liveness test left out
StartCheckAlways ==
    /\ ui.pc = "idle"
    /\ ui' = [ui EXCEPT !.pc = "spawn", !.answer = "none"]
    /\ UNCHANGED <<mgr, thr>>
    /\ UNCHANGED storeVars

\* lines 83-84: start_initialization returns at once while the thread is alive
StartCheck ==
    /\ ui.pc = "idle"
    /\ ui' = IF AlreadyRunning
             THEN [ui EXCEPT !.answer = "refused"]
             ELSE [ui EXCEPT !.pc = "spawn", !.answer = "none"]
    /\ UNCHANGED <<mgr, thr>>
    /\ UNCHANGED storeVars

\* lines 116-117: the thread is made, kept in self._thread and started
Spawn ==
    /\ ui.pc = "spawn"
    /\ \E t \in Threads :
          /\ thr[t].pc = "unborn"
          /\ \A u \in Threads : thr[u].pc = "unborn" => t <= u
          /\ mgr' = [mgr EXCEPT !.thread = t]
          /\ thr' = [thr EXCEPT ![t] = [@ EXCEPT !.pc = "begin"]]
    /\ ui' = [ui EXCEPT !.pc = "idle", !.answer = "started"]
    /\ UNCHANGED storeVars

\* line 108: run_init reports LOADING_MODEL, then calls init_fn
Begin(t) ==
    /\ thr[t].pc = "begin"
    /\ thr' = CallUpdateStatus(t, InitStatus("loading_model", 0, 0), "init_fn")
    /\ UNCHANGED <<mgr, ui>>
    /\ UNCHANGED storeVars

\* lines 86-102: init_fn calls progress_callback(stage, 1, 1, _)
Progress(t, stage) ==
    /\ thr[t].pc = "init_fn"
    /\ thr[t].emitted < MaxProgress
    /\ ~thr[t].finished
    /\ thr' = [CallUpdateStatus(t, InitStatus(StageMap(stage), 1, 1), "init_fn")
                EXCEPT ![t].emitted = @ + 1, ![t].finished = (stage = "complete")]
    /\ UNCHANGED <<mgr, ui>>
    /\ UNCHANGED storeVars

\* line 109: init_fn returns
InitReturns(t) ==
    /\ thr[t].pc = "init_fn"
    /\ thr' = [thr EXCEPT ![t].pc = "check_complete"]
    /\ UNCHANGED <<mgr, ui>>
    /\ UNCHANGED storeVars

\* lines 113-114: init_fn raises, run_init reports ERROR
InitRaises(t) ==
    /\ thr[t].pc = "init_fn"
    /\ ~thr[t].finished
    /\ thr' = [CallUpdateStatus(t, ErrorStatus, "done")
                EXCEPT ![t].initRaised = TRUE]
    /\ UNCHANGED <<mgr, ui>>
    /\ UNCHANGED storeVars

\* CheckComplete with line 112 left out: run_init ends when init_fn returns
CheckCompleteSilent(t) ==
    /\ thr[t].pc = "check_complete"
    /\ mgr.lock = 0
    /\ thr' = [thr EXCEPT ![t] = DeadThread]
    /\ UNCHANGED <<mgr, ui>>
    /\ UNCHANGED storeVars

\* lines 111-112: COMPLETE is reported unless the status says so already
\* (get_status takes the lock)
CheckComplete(t) ==
    /\ thr[t].pc = "check_complete"
    /\ mgr.lock = 0
    /\ thr' = IF mgr.status.stage # "complete"
              THEN CallUpdateStatus(t, InitStatus("complete", 1, 1), "done")
              ELSE [thr EXCEPT ![t] = DeadThread]
    /\ UNCHANGED <<mgr, ui>>
    /\ UNCHANGED storeVars

\* line 65: _update_status takes the lock
Acquire(t) ==
    /\ thr[t].pc = "upd_lock"
    /\ mgr.lock = 0
    /\ mgr' = [mgr EXCEPT !.lock = t]
    /\ thr' = [thr EXCEPT ![t].pc = "upd_set"]
    /\ UNCHANGED ui
    /\ UNCHANGED storeVars

\* SetStatus with the subscribers called inside the with block
SetStatusKeepingLock(t) ==
    /\ thr[t].pc = "upd_set"
    /\ mgr' = [mgr EXCEPT !.status = thr[t].upd]
    /\ thr' = [thr EXCEPT ![t] = [@ EXCEPT !.pc = "notify",
                                            !.copy = mgr.callbacks,
                                            !.todo = mgr.callbacks]]
    /\ UNCHANGED ui
    /\ UNCHANGED storeVars

\* lines 66-67: the status is set, the callbacks copied, the lock released
SetStatus(t) ==
    /\ thr[t].pc = "upd_set"
    /\ mgr' = [mgr EXCEPT !.status = thr[t].upd, !.lock = 0]
    /\ thr' = [thr EXCEPT ![t] = [@ EXCEPT !.pc = "notify",
                                            !.copy = mgr.callbacks,
                                            !.todo = mgr.callbacks]]
    /\ UNCHANGED ui
    /\ UNCHANGED storeVars

\* line 72: callback(self._status), the attribute read when the call is made
StatusPassed(written, current) == current

\* lines 70-72: the next subscriber is called
CallSubscriber(t) ==
    /\ thr[t].pc = "notify"
    /\ thr[t].todo # <<>>
    /\ thr' = [thr EXCEPT ![t] = [@ EXCEPT !.pc = "in_callback",
                                            !.arg = StatusPassed(thr[t].upd, mgr.status),
                                            !.called = @ \cup {Head(thr[t].todo)}]]
    /\ UNCHANGED <<mgr, ui>>
    /\ UNCHANGED storeVars

\* SubscriberReturns without the except clause: the exception leaves
\* _update_status and reaches the handler of run_init, or ends the thread
\* when raised from inside that handler
SubscriberReturnsPropagating(t, raises) ==
    /\ thr[t].pc = "in_callback"
    /\ thr' = IF ~raises
              THEN [thr EXCEPT ![t] = [@ EXCEPT !.pc = "notify", !.todo = Tail(@)]]
              ELSE IF thr[t].after = "done"
              THEN [thr EXCEPT ![t] = DeadThread]
              ELSE CallUpdateStatus(t, ErrorStatus, "done")
    /\ UNCHANGED <<mgr, ui>>
    /\ UNCHANGED storeVars

\* lines 71-74: the subscriber returns, or raises and the exception is dropped
SubscriberReturns(t, raises) ==
    /\ thr[t].pc = "in_callback"
    /\ thr' = [thr EXCEPT ![t] = [@ EXCEPT !.pc = "notify", !.todo = Tail(@),
                                            !.raised = IF raises
                                                       THEN @ \cup {Head(thr[t].todo)}
                                                       ELSE @]]
    /\ UNCHANGED <<mgr, ui>>
    /\ UNCHANGED storeVars

\* line 70: the loop is over, _update_status returns
Notified(t) ==
    /\ thr[t].pc = "notify"
    /\ thr[t].todo = <<>>
    /\ thr' = IF thr[t].after = "done"
              THEN [thr EXCEPT ![t] = [DeadThread EXCEPT !.initRaised = thr[t].initRaised]]
              ELSE [thr EXCEPT ![t] = [NoThread EXCEPT !.pc = thr[t].after,
                                                       !.emitted = thr[t].emitted,
                                                       !.finished = thr[t].finished]]
    /\ UNCHANGED <<mgr, ui>>
    /\ UNCHANGED storeVars

\* a subscriber is running
InCallback == \E t \in Threads : thr[t].pc = "in_callback"

\* lines 44-57: get_status, is_complete or is_error, which take the lock
ReadStatus ==
    /\ ui.pc = "idle"
    /\ mgr.lock = 0
    /\ ui' = [ui EXCEPT !.during = InCallback]
    /\ UNCHANGED <<mgr, thr>>
    /\ UNCHANGED storeVars

\* lines 39-42: add_status_callback; the subscribers are numbered in the
\* order in which they are added
AddStatusCallback(s) ==
    /\ ui.pc = "idle"
    /\ mgr.lock = 0
    /\ s = Len(mgr.callbacks) + 1
    /\ mgr' = [mgr EXCEPT !.callbacks = Append(@, s)]
    /\ UNCHANGED <<thr, ui>>
    /\ UNCHANGED storeVars

\* lines 59-67: mark_complete on the invoking thread; _update_status takes
\* the lock, sets the status, copies the callbacks and releases the lock
MarkComplete ==
    /\ ui.pc = "idle"
    /\ ui.marks < MaxMarks
    /\ mgr.lock = 0
    /\ mgr' = [mgr EXCEPT !.status = InitStatus("complete", 1, 1)]
    /\ ui' = [ui EXCEPT !.pc = "mark_notify", !.marks = @ + 1, !.todo = mgr.callbacks]
    /\ UNCHANGED thr
    /\ UNCHANGED storeVars

\* lines 70-74 on the invoking thread: the next subscriber is called and
\* returns, or raises and the exception is dropped
MarkCalls ==
    /\ ui.pc = "mark_notify"
    /\ ui.todo # <<>>
    /\ ui' = [ui EXCEPT !.todo = Tail(@),
                        !.arg = StatusPassed(InitStatus("complete", 1, 1), mgr.status)]
    /\ UNCHANGED <<mgr, thr>>
    /\ UNCHANGED storeVars

\* line 70 on the invoking thread: the loop is over, mark_complete returns
MarkReturns ==
    /\ ui.pc = "mark_notify"
    /\ ui.todo = <<>>
    /\ ui' = [ui EXCEPT !.pc = "idle"]
    /\ UNCHANGED <<mgr, thr>>
    /\ UNCHANGED storeVars

----------------------------------------------------------------------------
\* The text encoder (src/mana/rag/embeddings.py): one module-level variable
\* per process, read and set without a lock by every thread that calls
\* get_embedding_model.

\* get_embedding_model run by a single thread from its first line to its
\* last: the model is made when there is none
GetEmbeddingModel(e) ==
    IF e.instance = 0
    THEN [e EXCEPT !.instance = e.built + 1, !.built = @ + 1]
    ELSE e

\* caller c enters get_embedding_model
CallModel(c) ==
    /\ enc.callers[c].pc = "out"
    /\ enc.callers[c].calls < MaxCalls
    /\ enc' = [enc EXCEPT !.callers[c] =
                  [pc |-> "test", made |-> 0, got |-> 0, calls |-> @.calls + 1]]
    /\ UNCHANGED <<faissFile, chunksFile, metaFile, corrupt, pc, run, last, rpc, rd,
                   mgr, thr, ui, srch, calc>>

\* line 16: if _EMBEDDING_MODEL is None
TestModel(c) ==
    /\ enc.callers[c].pc = "test"
    /\ enc' = [enc EXCEPT !.callers[c].pc =
                  IF enc.instance = 0 THEN "construct" ELSE "return"]
    /\ UNCHANGED <<faissFile, chunksFile, metaFile, corrupt, pc, run, last, rpc, rd,
                   mgr, thr, ui, srch, calc>>

\* line 20, right-hand side: SentenceTransformer(EMBEDDING_MODEL_NAME) runs
\* and makes one more instance
ConstructModel(c) ==
    /\ enc.callers[c].pc = "construct"
    /\ enc' = [enc EXCEPT !.built = @ + 1,
                          !.callers[c] = [@ EXCEPT !.pc = "assign", !.made = enc.built + 1]]
    /\ UNCHANGED <<faissFile, chunksFile, metaFile, corrupt, pc, run, last, rpc, rd,
                   mgr, thr, ui, srch, calc>>

\* line 20, left-hand side: the instance is stored in _EMBEDDING_MODEL
AssignModel(c) ==
    /\ enc.callers[c].pc = "assign"
    /\ enc' = [enc EXCEPT !.instance = enc.callers[c].made,
                          !.callers[c].pc = "return"]
    /\ UNCHANGED <<faissFile, chunksFile, metaFile, corrupt, pc, run, last, rpc, rd,
                   mgr, thr, ui, srch, calc>>

\* line 21: return _EMBEDDING_MODEL, read again
ReturnModel(c) ==
    /\ enc.callers[c].pc = "return"
    /\ enc' = [enc EXCEPT !.callers[c] = [@ EXCEPT !.pc = "out", !.got = enc.instance]]
    /\ UNCHANGED <<faissFile, chunksFile, metaFile, corrupt, pc, run, last, rpc, rd,
                   mgr, thr, ui, srch, calc>>

----------------------------------------------------------------------------
\* search_vector_database (database.py lines 326-366), called while no
\* build is saving.

\* the squared L2 distances the query may have to a stored vector: both
\* are unit vectors, so the distance is in [0, 4]
Dists == {0, 2, 4}

\* the largest float, the distance the index gives for a result it does
\* not have (the model's integers end at 2^31)
FloatMax == 1073741824

\* the orders in which a flat index may return its rows for the distances
\* dist: nearest first, equal distances in any order
NearestFirst(dist) ==
    {o \in Orderings(DOMAIN dist) :
        \A i \in 1..(Cardinality(DOMAIN dist) - 1) : dist[o[i]] <= dist[o[i + 1]]}

\* index.search(query, k) of line 355 on an index of Len(order) rows: the k
\* nearest rows as labels counted from 0 with their distances, filled up
\* with the label -1 at the distance FloatMax
IndexSearch(dist, order, k) ==
    [i \in 1..k |->
        IF i <= Len(order)
        THEN [idx |-> order[i] - 1, dist |-> dist[order[i]]]
        ELSE [idx |-> -1, dist |-> FloatMax]]

\* chunks[idx] of a Python list: a negative idx counts from the end
ChunkAt(chunks, idx) ==
    IF idx >= 0 THEN chunks[idx + 1] ELSE chunks[Len(chunks) + idx + 1]

\* Similarity with the score kept in the range 0..1 its comment speaks of
SimilarityClamped(dist) ==
    IF 1 - (dist \div 2) < 0 THEN 0 ELSE 1 - (dist \div 2)

\* line 363: 1 - (dist / 2); the distances of the model are even
Similarity(dist) == 1 - (dist \div 2)

RECURSIVE ResultChunks(_, _)
\* lines 358-364: the loop over the labels and distances found; idx is
\* kept with each result to tell which label it came from
ResultChunks(chunks, found) ==
    IF found = <<>> THEN <<>>
    ELSE (IF Head(found).idx < Len(chunks)
          THEN <<[chunk |-> ChunkAt(chunks, Head(found).idx),
                  idx |-> Head(found).idx,
                  dist |-> Head(found).dist,
                  similarity |-> Similarity(Head(found).dist)]>>
          ELSE <<>>)
         \o ResultChunks(chunks, Tail(found))

\* ActualTopK without the clamp
ActualTopKUnclamped(top_k, chunks) == top_k

\* line 352
ActualTopK(top_k, chunks) == Min(top_k, Len(chunks))

\* SearchNotFound going on to the encoder before it gives up
SearchNotFoundEncoding(top_k) ==
    /\ srch' = [outcome |-> "not_found", top_k |-> top_k, n |-> 0, results |-> <<>>,
                reported |-> TRUE, encoded |-> TRUE]
    /\ enc' = GetEmbeddingModel(enc)

\* lines 336-340: nothing loaded, the absence is printed and [] returned
SearchNotFound(top_k) ==
    /\ srch' = [outcome |-> "not_found", top_k |-> top_k, n |-> 0, results |-> <<>>,
                reported |-> TRUE, encoded |-> FALSE]
    /\ enc' = enc

\* lines 342-366: the query is encoded and the nearest entries are returned;
\* encOk says whether the encoder could be made and could encode
SearchFound(db, top_k, encOk) ==
    /\ enc' = IF encOk THEN GetEmbeddingModel(enc) ELSE enc
    /\ IF ~encOk \/ ActualTopK(top_k, db.chunks) <= 0
       THEN srch' = [outcome |-> "raised", top_k |-> top_k, n |-> Len(db.chunks),
                     results |-> <<>>, reported |-> FALSE, encoded |-> encOk]
       ELSE \E dist \in [1..Len(db.index) -> Dists] :
              \E order \in NearestFirst(dist) :
                 srch' = [outcome |-> "found", top_k |-> top_k, n |-> Len(db.chunks),
                          results |->
                              ResultChunks(db.chunks,
                                           IndexSearch(dist, order,
                                                       ActualTopK(top_k, db.chunks))),
                          reported |-> FALSE, encoded |-> TRUE]

\* a call of search_vector_database(query, top_k), the first since the
\* store was last built
Search ==
    /\ pc = "idle"
    /\ rpc = "idle"
    /\ srch = NoSearch
    /\ \E top_k \in 1..MaxTopK, encOk \in BOOLEAN :
          IF ~LoadVectorDatabase.ok
          THEN SearchNotFound(top_k)
          ELSE SearchFound(LoadVectorDatabase, top_k, encOk)
    /\ UNCHANGED <<faissFile, chunksFile, metaFile, corrupt, pc, run, last, rpc, rd,
                   mgr, thr, ui, calc>>

----------------------------------------------------------------------------
\* The scan of the man directories (src/mana/manpage/discovery.py).  A scan
\* is the list of the directory entries in the order the loops of lines
\* 86-98 meet them: the name each has once the compression extension and
\* the section number are taken off (lines 100-108), and whether it is a
\* file.  A location is the position in that list.

\* every list of at most n entries
Scans(n) ==
    UNION {[1..k -> [name : Programs, isFile : BOOLEAN]] : k \in 0..n}

RECURSIVE DiscoveredLastWins(_, _, _)
\* Discovered without the test of line 110: a later location replaces an
\* earlier one
DiscoveredLastWins(files, i, man_pages) ==
    IF i > Len(files) THEN man_pages
    ELSE IF ~files[i].isFile THEN DiscoveredLastWins(files, i + 1, man_pages)
    ELSE DiscoveredLastWins(files, i + 1,
             [n \in (DOMAIN man_pages) \cup {files[i].name} |->
                 IF n = files[i].name THEN i ELSE man_pages[n]])

RECURSIVE Discovered(_, _, _)
\* lines 94-112: the loop over the entries from entry i on, man_pages being
\* the dictionary so far
Discovered(files, i, man_pages) ==
    IF i > Len(files) THEN man_pages
    ELSE IF ~files[i].isFile THEN Discovered(files, i + 1, man_pages)
    ELSE IF files[i].name \notin DOMAIN man_pages
    THEN Discovered(files, i + 1,
             [n \in (DOMAIN man_pages) \cup {files[i].name} |->
                 IF n = files[i].name THEN i ELSE man_pages[n]])
    ELSE Discovered(files, i + 1, man_pages)

\* discover_man_pages: the dictionary from name to location
DiscoverManPages(files) == Discovered(files, 1, <<>>)

\* get_all_executables: sorted(man_pages.keys())
GetAllExecutables(files) == SetToSortedSeq(DOMAIN DiscoverManPages(files))

\* a call of process_program, made while no build runs
Resolve ==
    /\ pc = "idle"
    /\ calc = NoCall
    /\ \E program \in Programs, fate \in Fates, ver \in Versions :
          calc' = [call |-> "process_program", program |-> program, fate |-> fate,
                   ver |-> ver, result |-> ProcessProgram(program, fate, ver)]
    /\ UNCHANGED <<faissFile, chunksFile, metaFile, corrupt, pc, run, last, rpc, rd,
                   mgr, thr, ui, enc, srch>>

\* a scan of the man directories, made while no build runs
Discover ==
    /\ pc = "idle"
    /\ calc = NoCall
    /\ \E files \in Scans(MaxFiles) :
          calc' = [call |-> "discover", files |-> files,
                   man_pages |-> DiscoverManPages(files),
                   executables |-> GetAllExecutables(files)]
    /\ UNCHANGED <<faissFile, chunksFile, metaFile, corrupt, pc, run, last, rpc, rd,
                   mgr, thr, ui, enc, srch>>

----------------------------------------------------------------------------
\* extract_name_section (src/mana/manpage/parser.py).  A man page text is a
\* list of lines; a line is the list of the tokens of its stripped form (a
\* macro, a word, "SP" for a blank, "BS" for a backspace) with what the
\* code asks of it: whether it is longer than 3 and than 20 characters and
\* whether str.isupper holds of it.  The lines have no blanks in front.

Phrase == "copy files and directories"

Line(tokens, over3, long, upper) ==
    [tokens |-> tokens, over3 |-> over3, long |-> long, upper |-> upper]

\* the lines the texts of the model are made of
ShNameLine      == Line(<<".Sh", "SP", "NAME">>, TRUE, FALSE, FALSE)
ShOtherLine     == Line(<<".Sh", "SP", "DESCRIPTION">>, TRUE, FALSE, FALSE)
NmLine          == Line(<<".Nm", "SP", "cp">>, TRUE, FALSE, FALSE)
NdLine          == Line(<<".Nd", "SP", Phrase>>, TRUE, TRUE, FALSE)
DdLine          == Line(<<".Dd", "SP", "February 23, 2021">>, TRUE, TRUE, FALSE)
NameHeader      == Line(<<"NAME">>, TRUE, FALSE, TRUE)
OverstruckName  == Line(<<"N\\bNA\\bAM\\bME\\bE">>, TRUE, FALSE, TRUE)
SummaryLine     == Line(<<"cp", "SP", "-", "SP", Phrase>>, TRUE, TRUE, FALSE)
SectionHeader   == Line(<<"DESCRIPTION">>, TRUE, FALSE, TRUE)
BlankLine       == Line(<<>>, FALSE, FALSE, FALSE)
OverstruckWord  == Line(<<"c", "BS", "c", "p", "BS", "p">>, TRUE, FALSE, FALSE)
BackspaceLine   == Line(<<"BS">>, FALSE, FALSE, FALSE)
ShortCapsLine   == Line(<<"CP">>, FALSE, FALSE, TRUE)
TitleLine       == Line(<<"GENERAL COMMANDS MANUAL">>, TRUE, TRUE, TRUE)

Lines ==
    {ShNameLine, ShOtherLine, NmLine, NdLine, DdLine, NameHeader, OverstruckName,
     SummaryLine, SectionHeader, BlankLine, OverstruckWord, BackspaceLine,
     ShortCapsLine, TitleLine}

\* the macros a line may begin with
Markers == {".Sh", ".Nm", ".Nd", ".Dd"}

ProgramNames == {"cp", "ls"}

\* every text of at most n lines
Texts(n) == UNION {[1..k -> Lines] : k \in 0..n}

\* line.startswith('.')
StartsWithDot(l) == l.tokens # <<>> /\ l.tokens[1] \in Markers

\* stripped.startswith(macro), for '.Nm' and '.Nd'
StartsWith(l, macro) == l.tokens # <<>> /\ l.tokens[1] = macro

\* stripped.startswith('.Sh ')
StartsWithSh(l) == Len(l.tokens) >= 2 /\ l.tokens[1] = ".Sh" /\ l.tokens[2] = "SP"

RECURSIVE Strip(_)
\* str.strip on a list of tokens
Strip(tokens) ==
    IF tokens = <<>> THEN <<>>
    ELSE IF Head(tokens) = "SP" THEN Strip(Tail(tokens))
    ELSE IF tokens[Len(tokens)] = "SP" THEN Strip(SubSeq(tokens, 1, Len(tokens) - 1))
    ELSE tokens

\* stripped[3:].strip()
Rest(l) == Strip(Tail(l.tokens))

RECURSIVE Join(_)
\* ' '.join(parts)
Join(parts) ==
    IF parts = <<>> THEN <<>>
    ELSE IF Len(parts) = 1 THEN parts[1]
    ELSE parts[1] \o <<"SP">> \o Join(Tail(parts))

\* line 10: is_troff
IsTroff(lines) ==
    \E i \in 1..Min(HeadLines, Len(lines)) : StartsWithDot(lines[i])

\* NdPart with the whole line kept
NdPartWithMacro(l) == l.tokens

\* line 38: what a .Nd line adds to description_parts
NdPart(l) == Rest(l)

RECURSIVE TroffParts(_, _, _)
\* lines 18-41: description_parts, from line i on, in_name_section being in
TroffParts(lines, i, in) ==
    IF i > Len(lines) THEN <<>>
    ELSE LET l == lines[i]
         IN  IF l.tokens = ShNameLine.tokens THEN TroffParts(lines, i + 1, TRUE)
             ELSE IF in /\ StartsWithSh(l) THEN <<>>
             ELSE IF ~in THEN TroffParts(lines, i + 1, FALSE)
             ELSE (IF StartsWith(l, ".Nm") THEN <<>>
                   ELSE IF StartsWith(l, ".Nd") THEN <<NdPart(l)>>
                   ELSE IF ~StartsWithDot(l) /\ l.tokens # <<>> THEN <<l.tokens>>
                   ELSE <<>>)
                  \o TroffParts(lines, i + 1, TRUE)

\* lines 43-47
TroffDescription(lines) ==
    LET description_parts == TroffParts(lines, 1, FALSE)
    IN  IF description_parts # <<>> THEN Strip(Join(description_parts)) ELSE <<>>

RECURSIVE PlainLinesPastBlanks(_, _, _, _)
\* PlainLines without the break of lines 68-69: a blank line is passed over
\* wherever it stands
PlainLinesPastBlanks(lines, i, in, got) ==
    IF i > Len(lines) THEN <<>>
    ELSE LET l == lines[i]
         IN  IF l.tokens \in {NameHeader.tokens, OverstruckName.tokens}
             THEN PlainLinesPastBlanks(lines, i + 1, TRUE, got)
             ELSE IF ~in THEN PlainLinesPastBlanks(lines, i + 1, FALSE, got)
             ELSE IF l.tokens # <<>> /\ l.upper /\ l.over3 THEN <<>>
             ELSE IF l.tokens # <<>>
             THEN <<l.tokens>> \o PlainLinesPastBlanks(lines, i + 1, TRUE, TRUE)
             ELSE PlainLinesPastBlanks(lines, i + 1, TRUE, got)

RECURSIVE PlainLines(_, _, _, _)
\* lines 53-69: name_lines, from line i on; got says whether name_lines
\* has a line already
PlainLines(lines, i, in, got) ==
    IF i > Len(lines) THEN <<>>
    ELSE LET l == lines[i]
         IN  IF l.tokens \in {NameHeader.tokens, OverstruckName.tokens}
             THEN PlainLines(lines, i + 1, TRUE, got)
             ELSE IF ~in THEN PlainLines(lines, i + 1, FALSE, got)
             ELSE IF l.tokens # <<>> /\ l.upper /\ l.over3 THEN <<>>
             ELSE IF l.tokens # <<>>
             THEN <<l.tokens>> \o PlainLines(lines, i + 1, TRUE, TRUE)
             ELSE IF got THEN <<>>
             ELSE PlainLines(lines, i + 1, TRUE, got)

\* Collapse with the backspaces taken out and nothing else
CollapseDroppingBackspaces(tokens, result) ==
    result \o SelectSeq(tokens, LAMBDA c : c # "BS")

RECURSIVE Collapse(_, _)
\* lines 75-81: every backspace deletes the character before it
Collapse(tokens, result) ==
    IF tokens = <<>> THEN result
    ELSE IF Head(tokens) = "BS"
    THEN Collapse(Tail(tokens),
                  IF result # <<>> THEN SubSeq(result, 1, Len(result) - 1) ELSE result)
    ELSE Collapse(Tail(tokens), Append(result, Head(tokens)))

\* lines 72-83
PlainDescription(lines) ==
    Collapse(Strip(Join(PlainLines(lines, 1, FALSE, FALSE))), <<>>)

RECURSIVE FallbackAnyLine(_, _)
\* Fallback looking at every line of the text
FallbackAnyLine(lines, i) ==
    IF i > Len(lines) THEN <<>>
    ELSE IF lines[i].tokens # <<>> /\ lines[i].long /\ ~lines[i].upper
    THEN lines[i].tokens
    ELSE FallbackAnyLine(lines, i + 1)

RECURSIVE Fallback(_, _)
\* lines 87-91: the first substantial line among the first 20, from line i on
Fallback(lines, i) ==
    IF i > Min(HeadLines, Len(lines)) THEN <<>>
    ELSE IF lines[i].tokens # <<>> /\ lines[i].long /\ ~lines[i].upper
    THEN lines[i].tokens
    ELSE Fallback(lines, i + 1)

\* line 93: f"{program} - command-line utility"
DefaultSummary(program) == <<program, "SP", "-", "SP", "command-line utility">>

\* lines 10-83: the description before the fallback
Extracted(lines) ==
    IF IsTroff(lines) THEN TroffDescription(lines) ELSE PlainDescription(lines)

\* extract_name_section(program, man_page_text)
ExtractNameSection(program, lines) ==
    LET found       == Extracted(lines)
        description == IF found = <<>> THEN Fallback(lines, 1) ELSE found
    IN  IF description # <<>> THEN description ELSE DefaultSummary(program)

\* a call of extract_name_section
ExtractName ==
    /\ calc = NoCall
    /\ \E program \in ProgramNames, lines \in Texts(MaxLines) :
          calc' = [call |-> "extract_name_section", program |-> program, lines |-> lines,
                   structured |-> IsTroff(lines),
                   name_lines |-> IF IsTroff(lines) THEN <<>>
                                  ELSE PlainLines(lines, 1, FALSE, FALSE),
                   extracted |-> Extracted(lines),
                   summary |-> ExtractNameSection(program, lines)]
    /\ UNCHANGED <<faissFile, chunksFile, metaFile, corrupt, pc, run, last, rpc, rd,
                   mgr, thr, ui, enc, srch>>

----------------------------------------------------------------------------
\* The TUI (src/mana/ui/tui.py) over a manager whose init_fn is the build
\* (cli.py lines 118-131 and 145-158).  No subscriber is added, so a
\* progress report of the build is the assignment of line 66 of
\* init_manager.py; the reports of run_init itself go through the steps of
\* _update_status above.

\* progress_callback (init_manager.py lines 86-102) for one event
StatusOf(event) == InitStatus(StageMap(event.stage), event.current, event.total)

\* the status once the build has sent `events`, one after the other
StatusAfter(status, events) ==
    IF events = <<>> THEN status ELSE StatusOf(events[Len(events)])

\* IsInitializing where the keys are let through as soon as the build has
\* reported anything
IsInitializingUntilReported(complete, status) ==
    ~complete /\ status.stage \in {"not_started", "loading_model"}

\* tui.py line 84: not is_complete() and not is_error(), the second test
\* made on the status as it is by then
IsInitializing(complete, status) == ~complete /\ status.stage # "error"

\* the keys the loop tells apart: none within the timeout, quit, the
\* favorites view and a search
Keys == {"none", "q", "v", "s"}

\* cli.py lines 131-133 and 158-165: start_initialization has returned and
\* run_tui begins its loop
RunTui ==
    /\ ui.pc = "idle"
    /\ ui.answer = "started"
    /\ ui' = [ui EXCEPT !.pc = "top", !.answer = "none"]
    /\ UNCHANGED <<mgr, thr>>
    /\ UNCHANGED storeVars

\* tui.py line 84, first call: is_complete takes the lock
TestComplete ==
    /\ ui.pc = "top"
    /\ mgr.lock = 0
    /\ ui' = [ui EXCEPT !.pc = "test_error",
                        !.complete = (mgr.status.stage = "complete")]
    /\ UNCHANGED <<mgr, thr>>
    /\ UNCHANGED storeVars

\* tui.py line 84, second call: is_error, and is_initializing is set
TestError ==
    /\ ui.pc = "test_error"
    /\ mgr.lock = 0
    /\ ui' = [ui EXCEPT !.pc = "key",
                        !.initializing = IsInitializing(ui.complete, mgr.status)]
    /\ UNCHANGED <<mgr, thr>>
    /\ UNCHANGED storeVars

\* tui.py lines 244-342: the key read is handled.  While initializing only
\* quit is looked at; otherwise the favorites view and a search read the
\* store (cli.py line 95, database.py line 335).
HandleKey(key) ==
    /\ ui.pc = "key"
    /\ ui' = [ui EXCEPT !.pc =
                 IF key = "q" THEN "quit"
                 ELSE IF ui.initializing THEN "top"
                 ELSE IF key \in {"v", "s"} THEN "read"
                 ELSE "top"]
    /\ UNCHANGED <<mgr, thr>>
    /\ UNCHANGED storeVars

\* load_vector_database has returned to the handler of the key
ReadReturns ==
    /\ ui.pc = "read"
    /\ rpc = "loaded"
    /\ rpc' = "idle"
    /\ rd' = NoRead
    /\ ui' = [ui EXCEPT !.pc = "top"]
    /\ UNCHANGED <<faissFile, chunksFile, metaFile, corrupt, pc, run, last, mgr, thr,
                   enc, srch, calc>>

\* init_fn of thread t runs the build up to its first write or to its
\* return, the status following the events it sends
InitBuilds(t) ==
    /\ thr[t].pc = "init_fn"
    /\ \E live \in SUBSET Programs, force \in BOOLEAN :
          Built("callback", live, force, TRUE)
    /\ mgr' = [mgr EXCEPT !.status = StatusAfter(mgr.status, run'.events)]
    /\ UNCHANGED <<faissFile, chunksFile, metaFile, corrupt, last, rpc, rd, thr, ui,
                   enc, srch, calc>>

\* the last write of the build of init_fn, and its "complete" report
InitWritesMeta ==
    /\ MetaWritten
    /\ mgr' = [mgr EXCEPT !.status = StatusAfter(mgr.status, run'.events)]
    /\ UNCHANGED <<faissFile, chunksFile, last, rpc, rd, thr, ui, enc, srch, calc>>

\* the build of init_fn is over: it returned, or an exception left it
InitEnds(t) ==
    /\ pc = "returned"
    /\ IF Returned(run.outcome) THEN InitReturns(t) ELSE InitRaises(t)

\* a build thread is inside run_init
Running == \E t \in Threads : IsAlive(t)

----------------------------------------------------------------------------
\* The specifications.

\* a call of build_vector_database; recChoices are the outcomes of the
\* reconstruction of the loaded vectors that the environment allows
Build(recChoices) ==
    \E live \in SUBSET Programs, force \in BOOLEAN, recOk \in recChoices :
        StartBuild(live, force, recOk)

Save == WriteIndex \/ WriteChunks \/ WriteMeta

\* builds one after the other
Next == Build(BOOLEAN) \/ Save \/ Finish(FALSE)

Spec == Init /\ [][Next]_vars

\* the caller runs the incremental build it remembers once more, with the
\* same live identifiers
Rebuild ==
    /\ last.returned
    /\ \E recOk \in BOOLEAN : StartBuild(last.live, FALSE, recOk)

\* builds one after the other, by a caller that may remember a build and
\* then runs it a second time
NextSeq ==
    \/ ~last.returned /\ Build(BOOLEAN)
    \/ Rebuild
    \/ Save
    \/ Finish(TRUE)
    \/ Finish(FALSE)

SpecSeq == Init /\ [][NextSeq]_vars

\* builds on a healthy index, any of which may die inside save
NextCrash == Build({TRUE}) \/ Save \/ Finish(FALSE) \/ Crash

SpecCrash == Init /\ [][NextCrash]_vars

\* builds on a healthy index, with a reader loading the store meanwhile; a
\* load overlaps one build at most (no build starts in the middle of a load)
NextReader ==
    \/ rpc = "idle" /\ Build({TRUE})
    \/ Save
    \/ Finish(FALSE)
    \/ LoadIndex
    \/ LoadChunks
    \/ LoadDone

SpecReader == Init /\ [][NextReader]_vars

\* builds on a healthy index, up to the first write that fails
NextFail ==
    \/ Build({TRUE})
    \/ Save
    \/ run.outcome # "write_raised" /\ Finish(FALSE)
    \/ WriteFails

SpecFail == Init /\ [][NextFail]_vars

\* builds on a healthy index and reads of the store, one call at a time,
\* with an artifact lost or damaged between two calls
NextDamage ==
    \/ rpc = "idle" /\ Build({TRUE})
    \/ Save
    \/ Finish(FALSE)
    \/ Damage
    \/ pc = "idle" /\ LoadIndex
    \/ LoadChunks
    \/ pc = "idle" /\ ReadMeta
    \/ LoadDone

SpecDamage == Init /\ [][NextDamage]_vars

\* builds one after the other and a search of the store they left
NextSearch ==
    \/ srch = NoSearch /\ Build(BOOLEAN)
    \/ Save
    \/ Finish(FALSE)
    \/ Search

SpecSearch == Init /\ [][NextSearch]_vars

\* builds on a healthy index, an artifact lost or damaged between two
\* calls, and a search of what is left
NextLostSearch ==
    \/ srch = NoSearch /\ Build({TRUE})
    \/ Save
    \/ Finish(FALSE)
    \/ srch = NoSearch /\ Damage
    \/ Search

SpecLostSearch == Init /\ [][NextLostSearch]_vars

\* builds one after the other, each called with a callback or without
NextModes ==
    \/ \E mode \in Modes, live \in SUBSET Programs, force \in BOOLEAN, recOk \in BOOLEAN :
          StartBuildIn(mode, live, force, recOk)
    \/ Save
    \/ Finish(FALSE)

SpecModes == Init /\ [][NextModes]_vars

\* builds one after the other, and a scan of the man directories
NextUnique ==
    \/ calc = NoCall /\ Build(BOOLEAN)
    \/ Save
    \/ Finish(FALSE)
    \/ Discover

SpecUnique == Init /\ [][NextUnique]_vars

\* builds one after the other, and a call of process_program
NextDrop ==
    \/ calc = NoCall /\ Build(BOOLEAN)
    \/ Save
    \/ Finish(FALSE)
    \/ Resolve

SpecDrop == Init /\ [][NextDrop]_vars

\* calls of extract_name_section
NextSummary == ExtractName

SpecSummary == Init /\ [][NextSummary]_vars

\* the build thread and the searching thread of one process, each calling
\* get_embedding_model some times
NextEncoder ==
    \E c \in Callers :
        \/ CallModel(c)
        \/ TestModel(c)
        \/ ConstructModel(c)
        \/ AssignModel(c)
        \/ ReturnModel(c)

SpecEncoder == Init /\ [][NextEncoder]_vars

\* one manager, its invoking side and the build threads it starts
NextInit ==
    \/ StartCheck
    \/ Spawn
    \/ ReadStatus
    \/ \E s \in Subscribers : AddStatusCallback(s)
    \/ \E t \in Threads :
          \/ Begin(t)
          \/ \E stage \in ProgressStages : Progress(t, stage)
          \/ InitReturns(t)
          \/ InitRaises(t)
          \/ CheckComplete(t)
          \/ Acquire(t)
          \/ SetStatus(t)
          \/ CallSubscriber(t)
          \/ \E raises \in BOOLEAN : SubscriberReturns(t, raises)
          \/ Notified(t)

SpecInit == Init /\ [][NextInit]_vars

\* a step of build thread t
ThreadStep(t) ==
    \/ Begin(t)
    \/ \E stage \in ProgressStages : Progress(t, stage)
    \/ InitReturns(t)
    \/ InitRaises(t)
    \/ CheckComplete(t)
    \/ Acquire(t)
    \/ SetStatus(t)
    \/ CallSubscriber(t)
    \/ \E raises \in BOOLEAN : SubscriberReturns(t, raises)
    \/ Notified(t)

\* the manager with build threads that keep running: a started thread is
\* scheduled, its init_fn returns or raises, every subscriber it calls
\* returns or raises, and the lock it waits for is given to it
SpecInitFair == SpecInit /\ \A t \in Threads : WF_vars(ThreadStep(t))

\* one manager, its build threads, and an invoking side that also calls
\* mark_complete
NextNotify ==
    \/ NextInit
    \/ MarkComplete
    \/ MarkCalls
    \/ MarkReturns

SpecNotify == Init /\ [][NextNotify]_vars

\* builds one after the other, then mana started in TUI mode: the manager
\* starts the one build thread, whose init_fn is the build, and run_tui
\* handles keys meanwhile
NextTui ==
    \/ mgr.thread = 0 /\ ui.pc = "idle" /\ Build({TRUE})
    \/ WriteIndex
    \/ WriteChunks
    \/ mgr.thread = 0 /\ WriteMeta
    \/ mgr.thread = 0 /\ Finish(FALSE)
    \/ mgr.thread = 0 /\ pc = "idle" /\ StartCheck
    \/ Spawn
    \/ RunTui
    \/ TestComplete
    \/ TestError
    \/ \E key \in Keys : HandleKey(key)
    \/ ui.pc = "read" /\ LoadIndex
    \/ LoadChunks
    \/ ReadReturns
    \/ \E t \in Threads :
          \/ Begin(t)
          \/ Acquire(t)
          \/ SetStatus(t)
          \/ Notified(t)
          \/ InitBuilds(t)
          \/ InitEnds(t)
          \/ CheckComplete(t)
    \/ Running /\ InitWritesMeta

SpecTui == Init /\ [][NextTui]_vars

----------------------------------------------------------------------------
\* The properties.

\* the build has returned (or raised) and its locals are still in view
AtReturn == pc = "returned"

\* the build has written the three artifacts and returned
Persisted == AtReturn /\ run.outcome = "saved"

\* the three artifacts as they were when the build started
PreIndex  == run.pre[1]
PreChunks == run.pre[2]
PreMeta   == run.pre[3]

\* the build wrote nothing
StoreUntouched == disk = run.pre

\* C1, for the builds that embedded a new entry: every store a build has
\* persisted holds exactly as many vectors in the index as entries in the
\* entry records.
C1_VectorsMatchEntries ==
    Persisted /\ run.new_chunks # <<>> =>
        Len(faissFile.rows) = Len(chunksFile.chunks)

\* C2: after every build that persists the store, the identifier list of
\* the metadata is the sorted set of the identifiers of the persisted entries.
C2_MetadataListsTheEntries ==
    Persisted => metaFile.programs = SetToSortedSeq(ProgramsOf(chunksFile.chunks))

\* a build that dropped an identifier, kept one and added one has persisted
C2_Witness ==
    /\ Persisted
    /\ run.removed # {}
    /\ run.existing_chunks # <<>>
    /\ run.new_chunks # <<>>

\* an identifier of the metadata has an entry with a vector at its position
HasEntryAndVector(p) ==
    \E i \in 1..Len(chunksFile.chunks) :
        /\ chunksFile.chunks[i].program = p
        /\ i <= Len(faissFile.rows)

\* C3: a crash between two writes of save never leaves metadata that lists
\* an identifier for which no entry and vector exist.
C3_CrashLeavesNoDanglingIdentifier ==
    pc = "crashed" =>
        (faissFile.exists /\ chunksFile.exists /\ metaFile.exists =>
            \A p \in Range(metaFile.programs) : HasEntryAndVector(p))

\* C4: a load that runs while a build saves returns the whole previous
\* snapshot or the whole new one, never a mixture of the two.
C4_ReaderSeesWholeSnapshot ==
    rpc = "loaded" =>
        \E snap \in rd.seen :
            Loaded(snap) = [ok |-> rd.ok, index |-> rd.index, chunks |-> rd.chunks]

\* a forced build has returned
ForcedReturn == AtReturn /\ run.force /\ Returned(run.outcome)

\* the numbers of entries, vectors and identifiers agree
CountsAgree ==
    /\ Len(chunksFile.chunks) = Len(faissFile.rows)
    /\ Len(faissFile.rows) = Len(metaFile.programs)

\* C5 as stated, for a live set that is not empty: after a forced build
\* the metadata identifiers equal sorted(live) and the three counts agree.
C5_ForcedBuildIndexesLive ==
    ForcedReturn /\ run.live # {} =>
        /\ metaFile.programs = SetToSortedSeq(run.live)
        /\ CountsAgree

\* C5 as amended: after a forced build in which at least one live identifier
\* resolves, the metadata identifiers equal the sorted set of the live
\* identifiers that resolved and the three counts agree; a forced build in
\* which none resolves writes nothing.
C5_ForcedBuildIndexesResolved ==
    ForcedReturn =>
        IF run.new_chunks # <<>>
        THEN /\ ProgramsOf(run.new_chunks) \subseteq run.live
             /\ metaFile.programs = SetToSortedSeq(ProgramsOf(run.new_chunks))
             /\ CountsAgree
        ELSE StoreUntouched

\* a forced build over a store that held something else has persisted some,
\* not all, of its live identifiers
C5_Witness ==
    /\ ForcedReturn
    /\ run.outcome = "saved"
    /\ ProgramsOf(run.new_chunks) # run.live
    /\ Range(PreMeta.programs) \ run.live # {}

\* the persisted store holds what this build created, and nothing else
OnlyNewEntries ==
    /\ chunksFile.chunks = run.new_chunks
    /\ faissFile.rows = NormalizeL2(Encode(run.encoded))
    /\ \A i \in 1..Len(chunksFile.chunks) :
            faissFile.rows[i] = VectorOf(chunksFile.chunks[i])

\* C6 as stated, for a live set that is not empty: with force every live
\* identifier is added, none removed, and after the build returns nothing
\* of the previous store remains.
C6_ForcedBuildDiscardsStore ==
    ForcedReturn /\ run.live # {} =>
        /\ run.added = run.live
        /\ run.removed = {}
        /\ OnlyNewEntries

\* C6 as amended: with force every live identifier is added and none
\* removed; if at least one resolves, the persisted store holds only the
\* entries and vectors this build created; if none resolves, the build
\* writes nothing and the previous store stays.
C6_ForcedBuildReplacesStore ==
    ForcedReturn =>
        /\ run.added = run.live
        /\ run.removed = {}
        /\ run.existing_chunks = <<>>
        /\ IF run.new_chunks # <<>> THEN OnlyNewEntries ELSE StoreUntouched

\* a forced build has persisted, and an entry of the previous store is gone
\* while another identifier was indexed before and is indexed anew
C6_Witness ==
    /\ ForcedReturn
    /\ run.outcome = "saved"
    /\ ProgramsOf(PreChunks.chunks) \ ProgramsOf(chunksFile.chunks) # {}
    /\ ProgramsOf(PreChunks.chunks) \cap ProgramsOf(chunksFile.chunks) # {}

\* the second of two incremental builds in a row with the same live set
SecondOfTwo ==
    /\ AtReturn
    /\ last.returned
    /\ ~run.force
    /\ run.live = last.live

\* no encoder call, and entries, vectors and metadata identifiers as before
NothingDone ==
    /\ run.encoded = <<>>
    /\ StoreUntouched

PreChunksWithout(removed) ==
    SelectSeq(PreChunks.chunks, LAMBDA c : c.program \notin removed)

\* C8, where the vectors of the loaded store were reconstructed: an
\* incremental build with nothing added and something removed drops exactly
\* the removed entries, persists at once, and calls the encoder never, so
\* that the identifiers left are the live ones.
C8_RemovalOnlyPersists ==
    (AtReturn /\ ~run.force /\ PreMeta.programs # <<>> /\ ~run.recFailed
        /\ run.added = {} /\ run.removed # {}) =>
        /\ run.outcome = "saved"
        /\ run.encoded = <<>>
        /\ chunksFile.chunks = PreChunksWithout(run.removed)
        /\ Range(metaFile.programs) = run.live

\* C9, where every added identifier resolves: in an incremental build that
\* only adds, the added identifiers are what the encoder gets, and every
\* entry kept from the store keeps its vector.
C9_AdditionKeepsVectors ==
    (AtReturn /\ ~run.force /\ PreMeta.programs # <<>>
        /\ run.added # {} /\ run.removed = {}
        /\ ProgramsOf(run.new_chunks) = run.added
        /\ run.outcome = "saved") =>
        /\ {run.encoded[i][1] : i \in 1..Len(run.encoded)} = run.added
        /\ \A i \in 1..Len(PreChunks.chunks) :
                /\ chunksFile.chunks[i] = PreChunks.chunks[i]
                /\ i <= Len(faissFile.rows)
                /\ i <= Len(PreIndex.rows)
                /\ faissFile.rows[i] = PreIndex.rows[i]

\* C10, for the builds that embedded a new entry without an encoder
\* failure: when the vectors of the
\* loaded store cannot be reconstructed the build does not fail, does not
\* ingest a retained entry again, and every entry of the store it persists
\* has its vector.
C10_ReconstructionFailureReembeds ==
    (AtReturn /\ run.recFailed /\ run.new_chunks # <<>>
        /\ run.outcome # "encoder_raised") =>
        /\ Returned(run.outcome)
        /\ ProgramsOf(run.new_chunks) \cap ProgramsOf(run.existing_chunks) = {}
        /\ run.outcome = "saved" =>
                \A i \in 1..Len(chunksFile.chunks) :
                    /\ i <= Len(faissFile.rows)
                    /\ faissFile.rows[i] = VectorOf(chunksFile.chunks[i])

\* the artifacts that did not parse when the build started
PreCorrupt == run.pre[4]

\* the store the build found does not load: an artifact is missing or does
\* not parse
PreLoadFails ==
    \/ ~PreIndex.exists \/ ~PreChunks.exists \/ ~PreMeta.exists
    \/ PreCorrupt # {}

\* C11, for a live set that is not empty: when the store does not load, a
\* non-forced build is a full rebuild: every live identifier is ingested,
\* nothing is kept from the store and nothing is diffed against the
\* metadata that survives.
C11_LoadFailureMeansFullRebuild ==
    (AtReturn /\ ~run.force /\ PreLoadFails /\ run.live # {}) =>
        /\ run.added = run.live
        /\ run.removed = {}
        /\ run.existing_programs = <<>>
        /\ run.existing_chunks = <<>>

\* the vector index and the entry records exist and parse
IndexAndChunksParse ==
    /\ faissFile.exists /\ chunksFile.exists
    /\ "index" \notin corrupt /\ "chunks" \notin corrupt

\* C12 as stated: load returns a store exactly when all three artifacts
\* exist and parse.
C12_LoadNeedsAllThree ==
    rpc = "loaded" => (rd.ok <=> Whole)

\* C12 as amended: load returns nothing whenever the vector index or the
\* entry records is missing or fails to parse, and returns the index and
\* the entries otherwise; the metadata is not consulted.
C12_LoadNeedsIndexAndChunks ==
    rpc = "loaded" =>
        /\ rd.ok <=> IndexAndChunksParse
        /\ rd.ok => rd.index = faissFile.rows /\ rd.chunks = chunksFile.chunks

\* load has returned nothing because the entry records do not parse, the
\* index and the metadata being in order
C12_Witness ==
    /\ rpc = "loaded"
    /\ ~rd.ok
    /\ corrupt = {"chunks"}
    /\ faissFile.exists /\ metaFile.exists

\* a step of one of the two read operations
ReadStep == LoadIndex \/ LoadChunks \/ ReadMeta

C14_EncoderFailureWritesNothing ==
    (pc # "idle" /\ run.encFailed) =>
        /\ AtReturn
        /\ run.outcome = "encoder_raised"
        /\ StoreUntouched

\* the encoder has failed in a build over a store from which an identifier
\* was to be dropped and another kept
C14_Witness ==
    /\ AtReturn
    /\ run.encFailed
    /\ run.removed # {}
    /\ run.existing_chunks # <<>>

\* what load_vector_database returns from the artifacts d
LoadedFrom(d) ==
    IF ~d[1].exists \/ ~d[2].exists \/ "index" \in d[4] \/ "chunks" \in d[4]
    THEN [ok |-> FALSE, index |-> <<>>, chunks |-> <<>>]
    ELSE [ok |-> TRUE, index |-> d[1].rows, chunks |-> d[2].chunks]

\* C15, for a build over a store that loads: after a build that fails, a
\* failure of a write of save included, load returns the entries and the
\* index it returned before the build.
C15_FailedBuildKeepsLastStore ==
    (AtReturn /\ ~Returned(run.outcome) /\ LoadedFrom(run.pre).ok) =>
        LoadedFrom(disk) = LoadedFrom(run.pre)

\* the place of a stage in the order discovery, scanning, extracting,
\* embedding, saving, complete
StageRank(stage) ==
    CASE stage = "discovery" -> 1
      [] stage = "scanning" -> 2
      [] stage = "extracting" -> 3
      [] stage = "embedding" -> 4
      [] stage = "saving" -> 5
      [] stage = "complete" -> 6

AllStages ==
    {"discovery", "scanning", "extracting", "embedding", "saving", "complete"}

StagesOf(events) == {events[i].stage : i \in 1..Len(events)}

\* no event of an earlier stage follows an event of a later stage
InStageOrder(events) ==
    \A i, j \in 1..Len(events) :
        i < j => StageRank(events[i].stage) <= StageRank(events[j].stage)

\* a build that starts from nothing: forced, or with no metadata to diff against
FromScratch == run.force \/ ~PreMeta.exists

\* C17 as stated, for a live set that is not empty: the events of a build
\* come in the order of the stages, and a from-scratch build that returns
\* has emitted all six stages.
C17_StagesInOrderAllSix ==
    (AtReturn /\ run.live # {}) =>
        /\ InStageOrder(run.events)
        /\ (FromScratch /\ Returned(run.outcome)) => StagesOf(run.events) = AllStages

\* C17 as amended: at every point of a build the events emitted so far come
\* in the order of the stages, and a from-scratch build in which at least
\* one identifier resolves and which persists has emitted all six stages;
\* one in which none resolves emits discovery and scanning only.
C17_StagesInOrder ==
    pc # "idle" =>
        /\ InStageOrder(run.events)
        /\ (AtReturn /\ FromScratch /\ Returned(run.outcome)) =>
                StagesOf(run.events) =
                    IF run.new_chunks # <<>> THEN AllStages
                    ELSE IF run.live # {} THEN {"discovery", "scanning"}
                    ELSE {"discovery"}

\* a from-scratch build that encoded two batches has persisted
C17_Witness ==
    /\ AtReturn
    /\ FromScratch
    /\ run.outcome = "saved"
    /\ Len(run.new_chunks) > BatchSize
    /\ StagesOf(run.events) = AllStages

\* C18: every "complete" event carries current = total = the number of
\* entries of the persisted store (which is the number of identifiers of
\* its metadata).
C18_CompleteCarriesEntryCount ==
    AtReturn =>
        \A i \in 1..Len(run.events) :
            run.events[i].stage = "complete" =>
                /\ run.events[i].current = run.events[i].total
                /\ run.events[i].total = Len(chunksFile.chunks)
                /\ run.events[i].total = Len(metaFile.programs)

\* a removal-only build has sent "complete" for the two entries it kept
C18_Witness ==
    /\ AtReturn
    /\ run.path = "removal_only"
    /\ run.outcome = "saved"
    /\ Len(chunksFile.chunks) = 2
    /\ \E i \in 1..Len(run.events) : run.events[i] = Event("complete", 2, 2)

\* the build threads that are running
AliveThreads == {t \in Threads : IsAlive(t)}

\* C16: at most one build thread is running at any time, and a
\* start_initialization request made while one is alive starts nothing and
\* changes no status.
C16_SingleFlight ==
    /\ [](Cardinality(AliveThreads) <= 1)
    /\ [][(StartCheck /\ AliveThreads # {}) =>
            (ui'.pc = "idle" /\ mgr' = mgr /\ thr' = thr)]_vars

\* a start request has been refused while the second thread of the manager
\* is running
C16_Witness ==
    /\ ui.answer = "refused"
    /\ IsAlive(2)
    /\ ~IsAlive(1)

\* C19: an exception raised by a subscriber is swallowed: the status stays
\* the one just recorded while the subscribers are called, every subscriber
\* of the update is called whether or not an earlier one raised, and the
\* run goes on (ERROR is reported only when init_fn itself raised).
C19_SubscriberExceptionSwallowed ==
    \A t \in Threads :
        /\ thr[t].pc \in {"notify", "in_callback"} => mgr.status = thr[t].upd
        /\ (thr[t].pc = "notify" /\ thr[t].todo = <<>>) =>
                thr[t].called = Range(thr[t].copy)
        /\ (IsAlive(t) /\ thr[t].upd.stage = "error") => thr[t].initRaised

\* the first of two subscribers raised during a progress update, and the
\* second was called all the same
C19_Witness ==
    \E t \in Threads :
        /\ thr[t].pc = "notify"
        /\ thr[t].todo = <<>>
        /\ thr[t].copy = <<1, 2>>
        /\ thr[t].raised = {1}
        /\ thr[t].called = {1, 2}
        /\ thr[t].upd.stage = "building_index"

\* C20: subscribers are called with the status lock released: while a
\* subscriber is running the lock is free, so get_status, is_complete and
\* is_error return without waiting for it.
C20_SubscribersCalledUnlocked ==
    InCallback => mgr.lock = 0

\* the invoking side has read the status while a subscriber was running,
\* and the subscriber is running still
C20_Witness ==
    /\ ui.during
    /\ InCallback

\* C21: when init_fn raises, the status is never COMPLETE from then on for
\* that run, and once the thread has ended the status is ERROR and carries
\* the text of the exception, until another run is started.
C21_FailedRunEndsInError ==
    \A t \in Threads :
        (mgr.thread = t /\ thr[t].initRaised) =>
            /\ mgr.status.stage # "complete"
            /\ thr[t].pc = "done" =>
                  (mgr.status.stage = "error" /\ mgr.status.error)

\* a run whose init_fn raised after a progress call has ended
C21_Witness ==
    \E t \in Threads :
        /\ mgr.thread = t
        /\ thr[t].initRaised
        /\ thr[t].pc = "done"
        /\ mgr.status = ErrorStatus

\* C22: a search of a store that load_vector_database cannot load gives
\* the empty list and prints that the store is absent; it does not raise,
\* and the encoder is neither made nor called.
C22_UnloadableStoreSearchesEmpty ==
    (srch.outcome # "none" /\ ~LoadVectorDatabase.ok) =>
        /\ srch.outcome = "not_found"
        /\ srch.results = <<>>
        /\ srch.reported
        /\ ~srch.encoded
        /\ enc.built = 0

\* a store whose entry records no longer parse has been searched
C22_Witness ==
    /\ srch.outcome = "not_found"
    /\ faissFile.exists /\ chunksFile.exists
    /\ "chunks" \in corrupt

\* C23: a search with top_k >= 1 of a loadable store of n entries, whose
\* query the encoder encoded, gives exactly min(top_k, n) results, the
\* nearest first: the distances do not decrease and the similarities do
\* not increase along the list.
C23_TopKClamped ==
    (srch.outcome # "none" /\ LoadVectorDatabase.ok /\ srch.encoded) =>
        /\ srch.outcome = "found"
        /\ srch.n = Len(chunksFile.chunks)
        /\ Len(srch.results) = Min(srch.top_k, srch.n)
        /\ \A i, j \in 1..Len(srch.results) :
              i < j => /\ srch.results[i].dist <= srch.results[j].dist
                       /\ srch.results[i].similarity >= srch.results[j].similarity

\* a store of three entries searched with a top_k of four gave three results
C23_Witness ==
    /\ srch.outcome = "found"
    /\ srch.n = 3
    /\ Len(faissFile.rows) = 3
    /\ srch.top_k = 4
    /\ Len(srch.results) = 3

C27_ModelConstructedOnce ==
    /\ enc.built <= 1
    /\ \A c, d \in Callers :
          (enc.callers[c].got # 0 /\ enc.callers[d].got # 0) =>
              enc.callers[c].got = enc.callers[d].got

\* C25: a scan keeps for every name the first location it was found at, so
\* the list of identifiers has no name twice; and in every store builds run
\* one after the other leave, no two entry records and no two identifiers
\* of the metadata are the same identifier.
C25_IdentifiersUnique ==
    /\ calc.call = "discover" =>
          /\ DOMAIN calc.man_pages =
                {calc.files[i].name : i \in {k \in 1..Len(calc.files) : calc.files[k].isFile}}
          /\ \A n \in DOMAIN calc.man_pages :
                /\ calc.files[calc.man_pages[n]].name = n
                /\ calc.files[calc.man_pages[n]].isFile
                /\ \A k \in 1..(calc.man_pages[n] - 1) :
                      ~(calc.files[k].isFile /\ calc.files[k].name = n)
          /\ \A i, j \in 1..Len(calc.executables) :
                i < j => calc.executables[i] < calc.executables[j]
    /\ \A i, j \in 1..Len(chunksFile.chunks) :
          i # j => chunksFile.chunks[i].program # chunksFile.chunks[j].program
    /\ \A i, j \in 1..Len(metaFile.programs) :
          i # j => metaFile.programs[i] # metaFile.programs[j]

\* a scan met one name at two locations and kept the first, beside a store
\* of more than one entry
C25_Witness ==
    /\ calc.call = "discover"
    /\ \E i, j \in 1..Len(calc.files) :
          /\ i < j
          /\ calc.files[i].isFile /\ calc.files[j].isFile
          /\ calc.files[i].name = calc.files[j].name
          /\ calc.man_pages[calc.files[i].name] = i
    /\ Len(chunksFile.chunks) >= 2

\* the build went as far as the worker pool (lines 198-229)
Ingesting ==
    AtReturn /\ run.outcome \in {"no_programs", "encoder_raised", "save_raised", "saved"}
             /\ run.path # "removal_only"

\* the identifiers submitted to the pool that did not resolve
Dropped == run.added \ ProgramsOf(run.new_chunks)

\* C26: process_program gives None, and raises nothing, whenever the
\* identifier is not in the cache or `man` fails, prints nothing, times out
\* or raises, and gives the page otherwise.  A build some of whose
\* identifiers did not resolve raises nothing on their account (it returns
\* when the encoder works and the store it found has a vector for every
\* entry, which it could reconstruct), and what it persists has an entry
\* and a metadata identifier for every identifier that resolved and none
\* for one that did not.
C26_UnresolvedDroppedSilently ==
    /\ calc.call = "process_program" =>
          /\ ~calc.result.raised
          /\ calc.result.isNone <=> calc.fate # "ok"
          /\ ~calc.result.isNone =>
                (calc.result.program = calc.program /\ calc.result.text = calc.ver)
    /\ (Ingesting /\ Dropped # {}) =>
          /\ run.outcome # "filter_raised"
          /\ (~run.encFailed /\ ~run.recFailed
                /\ Len(PreIndex.rows) = Len(PreChunks.chunks)) =>
                run.outcome \in {"saved", "no_programs"}
          /\ run.outcome = "saved" =>
                /\ chunksFile.chunks = run.existing_chunks \o run.new_chunks
                /\ \A p \in Dropped :
                      /\ p \notin ProgramsOf(chunksFile.chunks)
                      /\ p \notin Range(metaFile.programs)
                /\ \A p \in ProgramsOf(run.new_chunks) :
                      /\ p \in ProgramsOf(chunksFile.chunks)
                      /\ p \in Range(metaFile.programs)
          /\ run.outcome # "saved" => StoreUntouched

\* a build was given three new identifiers, one of which did not resolve,
\* and persisted the other two
C26_Witness ==
    /\ Ingesting
    /\ run.outcome = "saved"
    /\ Cardinality(run.added) = 3
    /\ Cardinality(Dropped) = 1
    /\ Len(chunksFile.chunks) = 2

\* the decision a run took, read off its outcome
StepOf(r) ==
    IF r.outcome \in {"up_to_date", "filter_raised", "nothing"} THEN r.outcome
    ELSE IF r.outcome = "saving" /\ r.path = "removal_only" THEN "removal_only"
    ELSE "ingest"

\* C28: a build, whichever way it is called, takes the decision a build
\* with a progress callback takes for the same live identifiers, store,
\* force flag and reconstruction outcome, with the same added and removed
\* identifiers and the same retained entries and vectors; and for the same
\* resolved man pages it hands save the entries, vectors and identifiers
\* that a build with a callback, which encodes in batches, hands it.
C28_SameWithAndWithoutCallback ==
    ((pc = "write_index" \/ (AtReturn /\ run.outcome # "saved")) /\ disk = run.pre) =>
        LET r == ReconcileIn("callback", run.live, run.force, ~run.recFailed)
        IN  /\ StepOf(run) = r.step
            /\ run.added = r.added
            /\ run.removed = r.removed
            /\ run.existing_programs = r.existing_programs
            /\ run.existing_chunks = r.existing_chunks
            /\ run.existing_embeddings = r.existing_embeddings
            /\ (pc = "write_index" /\ run.path = "merge") =>
                  /\ run.chunks = AllChunks(r.existing_chunks, run.new_chunks)
                  /\ run.rows =
                        NormalizeL2(AllEmbeddings(r.existing_embeddings,
                                                  NewEmbeddings("callback", run.new_chunks)))
                  /\ run.programs = AllPrograms(r.existing_programs, run.new_chunks)
            /\ (pc = "write_index" /\ run.path = "removal_only") =>
                  /\ run.chunks = r.existing_chunks
                  /\ run.rows = NormalizeL2(r.existing_embeddings.rows)
                  /\ run.programs = r.existing_programs

\* a build without a callback is about to save more new entries than one
\* batch holds
C28_Witness ==
    /\ pc = "write_index"
    /\ run.mode \in {"verbose", "quiet"}
    /\ run.path = "merge"
    /\ Len(run.encoded) > BatchSize
    /\ disk = run.pre

\* the text has a names block, from its first .Sh NAME line to the next
\* section macro, with the line .Nd copy files and directories in it
NamesBlockHasPhrase(lines) ==
    \E f, j \in 1..Len(lines) :
        /\ lines[f] = ShNameLine
        /\ \A k \in 1..(f - 1) : lines[k] # ShNameLine
        /\ f < j
        /\ lines[j] = NdLine
        /\ \A k \in (f + 1)..(j - 1) : lines[k] # ShOtherLine

\* C29: for a structured text (a macro begins one of its first lines) whose
\* names block holds the description "copy files and directories", the
\* summary contains that phrase and no macro.
C29_StructuredSummaryHasPhrase ==
    (calc.call = "extract_name_section" /\ calc.structured
        /\ NamesBlockHasPhrase(calc.lines)) =>
        /\ \E i \in 1..Len(calc.summary) : calc.summary[i] = Phrase
        /\ \A i \in 1..Len(calc.summary) : calc.summary[i] \notin Markers

\* the summary of a text with .Sh NAME, .Nm cp and the .Nd line is the phrase
C29_Witness ==
    /\ calc.call = "extract_name_section"
    /\ calc.structured
    /\ NamesBlockHasPhrase(calc.lines)
    /\ \E i \in 1..Len(calc.lines) : calc.lines[i] = NmLine
    /\ calc.summary = <<Phrase>>

\* C30: when the extraction gave nothing, the summary is the first line
\* among the head lines that is longer than 20 characters and not all
\* upper case, and "<program> - command-line utility" when there is no such
\* line; when it gave something, that is the summary; the summary is
\* never empty.
C30_FallbackChain ==
    calc.call = "extract_name_section" =>
        LET head  == 1..Min(HeadLines, Len(calc.lines))
            cands == {i \in head : calc.lines[i].long /\ ~calc.lines[i].upper}
        IN  /\ calc.summary # <<>>
            /\ calc.extracted # <<>> => calc.summary = calc.extracted
            /\ (calc.extracted = <<>> /\ cands # {}) =>
                  \E i \in cands :
                      /\ \A k \in cands : i <= k
                      /\ calc.summary = calc.lines[i].tokens
            /\ (calc.extracted = <<>> /\ cands = {}) =>
                  calc.summary = DefaultSummary(calc.program)

\* a text whose only substantial line comes after the head lines got the
\* default summary
C30_Witness ==
    /\ calc.call = "extract_name_section"
    /\ calc.extracted = <<>>
    /\ calc.summary = DefaultSummary(calc.program)
    /\ \E i \in 1..Len(calc.lines) :
          i > HeadLines /\ calc.lines[i].long /\ ~calc.lines[i].upper

\* the build diffs against a store that lists something, adds and removes
Incremental ==
    ~run.force /\ PreMeta.programs # <<>> /\ run.added # {} /\ run.removed # {}

\* C31, for the builds that return and reconstructed the vectors of the
\* store: in an incremental build with additions and removals, added is
\* live - known and removed is known - live, only added identifiers reach
\* the encoder, and the build persists once the previous entries without
\* the removed ones, followed by the new ones.
C31_IncrementalAddsAndRemoves ==
    (AtReturn /\ Incremental /\ Returned(run.outcome) /\ ~run.recFailed) =>
        /\ run.added = run.live \ Range(PreMeta.programs)
        /\ run.removed = Range(PreMeta.programs) \ run.live
        /\ {run.encoded[i][1] : i \in 1..Len(run.encoded)} \subseteq run.added
        /\ run.outcome = "saved"
        /\ chunksFile.chunks = PreChunksWithout(run.removed) \o run.new_chunks
        /\ Range(metaFile.programs) \cap run.removed = {}

\* the vector at every position of the store on disk is the vector of the
\* entry at that position
Aligned ==
    /\ Len(faissFile.rows) = Len(chunksFile.chunks)
    /\ \A i \in 1..Len(chunksFile.chunks) :
            faissFile.rows[i] = VectorOf(chunksFile.chunks[i])

\* C32, for the builds that embedded a new entry: in every store a build
\* has persisted, the vector at position i is the vector of the entry at
\* position i, whether the build filtered removed entries, embedded new
\* ones in batches, or merged the two.
C32_VectorsAligned == Persisted /\ run.new_chunks # <<>> => Aligned

\* the events of one stage, in the order sent
EventsOf(stage) == SelectSeq(run.events, LAMBDA e : e.stage = stage)

\* current goes up from event to event and never passes total
Counting(events) ==
    /\ \A i \in 1..Len(events) : events[i].current <= events[i].total
    /\ \A i \in 1..(Len(events) - 1) : events[i].current < events[i + 1].current

\* the last event of a stage that sent any has current = total
EndsAtTotal(events) ==
    events # <<>> => events[Len(events)].current = events[Len(events)].total

\* C33: a build sends one "scanning" event per completed resolution, with
\* current the number completed and total the number submitted, and one
\* "embedding" event per batch, with current the number of texts encoded so
\* far and total the number to encode; in each stage current strictly
\* increases and never exceeds total, and the last event of a stage the
\* build went through has current = total.
C33_ProgressCounters ==
    LET scanning  == EventsOf("scanning")
        embedding == EventsOf("embedding")
        submitted == Cardinality(run.added)
        to_encode == Len(run.encoded)
    IN  pc # "idle" =>
        /\ Counting(scanning) /\ Counting(embedding)
        /\ scanning # <<>> =>
              /\ Len(scanning) = submitted
              /\ \A i \in 1..Len(scanning) :
                    scanning[i].current = i /\ scanning[i].total = submitted
        /\ EndsAtTotal(scanning)
        /\ \A j \in 1..Len(embedding) :
              /\ embedding[j].total = to_encode
              /\ embedding[j].current - (IF j = 1 THEN 0 ELSE embedding[j - 1].current)
                    \in 1..BatchSize
              /\ embedding[j].current < to_encode =>
                    embedding[j].current = j * BatchSize
        /\ (run.outcome # "encoder_raised" /\ to_encode > 0) =>
              /\ Len(embedding) = NumBatches(to_encode)
              /\ EndsAtTotal(embedding)

\* a build has resolved the identifiers it submitted and encoded them in a
\* full batch and a short one
C33_Witness ==
    /\ AtReturn
    /\ run.outcome = "saved"
    /\ Len(EventsOf("scanning")) = NumPrograms
    /\ Len(EventsOf("embedding")) = 2
    /\ Len(run.encoded) % BatchSize # 0

\* the line is the NAME heading, plain or overstruck
IsNameHeading(l) == l.tokens \in {NameHeader.tokens, OverstruckName.tokens}

\* the line is a heading as line 64 tests it: not blank, all upper case,
\* longer than 3 characters
IsHeading(l) == l.tokens # <<>> /\ l.upper /\ l.over3

\* extract_name_section was called on a plain text
PlainCall == calc.call = "extract_name_section" /\ ~calc.structured

\* the positions after the first NAME heading, that heading at position 0
\* when there is none; lines that repeat the NAME heading are passed over
Content(lines, from, to) ==
    {k \in from..to : lines[k].tokens # <<>> /\ ~IsNameHeading(lines[k])}

\* C34, a heading being an all-caps line of more than three characters:
\* in a plain text the lines collected are the non-blank lines after the
\* NAME heading (plain or overstruck) up to the first heading, or the first
\* blank line that has collected content before it; blank lines before any
\* content are skipped and nothing from the stopping line on is collected.
C34_PlainNameLines ==
    PlainCall =>
        LET lines == calc.lines
            n     == Len(lines)
            heads == {i \in 1..n : IsNameHeading(lines[i])}
            start == IF heads = {} THEN n + 1
                     ELSE CHOOSE i \in heads : \A j \in heads : i <= j
            stops == {j \in (start + 1)..n :
                         /\ ~IsNameHeading(lines[j])
                         /\ \/ IsHeading(lines[j])
                            \/ /\ lines[j].tokens = <<>>
                               /\ Content(lines, start + 1, j - 1) # {}}
            stop  == IF stops = {} THEN n + 1
                     ELSE CHOOSE j \in stops : \A k \in stops : j <= k
            kept  == SetToSortedSeq(Content(lines, start + 1, stop - 1))
        IN  calc.name_lines = [k \in 1..Len(kept) |-> lines[kept[k]].tokens]

\* a summary line was collected after the NAME heading, and the line after
\* the blank line that follows it was not
C34_Witness ==
    /\ PlainCall
    /\ Len(calc.lines) = 4
    /\ IsNameHeading(calc.lines[1])
    /\ calc.lines[2] = SummaryLine
    /\ calc.lines[3] = BlankLine
    /\ calc.lines[4] = OverstruckWord
    /\ calc.name_lines = <<SummaryLine.tokens>>

RECURSIVE Emitted(_)
\* what is left of a text once every backspace has deleted the character
\* emitted just before it, told from the last character backwards
Emitted(tokens) ==
    IF tokens = <<>> THEN <<>>
    ELSE LET before == Emitted(SubSeq(tokens, 1, Len(tokens) - 1))
             c      == tokens[Len(tokens)]
         IN  IF c # "BS" THEN Append(before, c)
             ELSE IF before = <<>> THEN <<>>
             ELSE SubSeq(before, 1, Len(before) - 1)

\* C35: in the summary of a plain text every backspace deletes the
\* character emitted just before it, and does nothing when none has been
\* emitted, so that the collapsed summary holds no backspace.
C35_BackspacesCollapsed ==
    PlainCall =>
        /\ calc.extracted = Emitted(Strip(Join(calc.name_lines)))
        /\ \A i \in 1..Len(calc.extracted) : calc.extracted[i] # "BS"

\* a backspace with nothing before it and an overstruck word were collapsed
C35_Witness ==
    /\ PlainCall
    /\ calc.name_lines = <<BackspaceLine.tokens, OverstruckWord.tokens>>
    /\ calc.extracted = <<"SP", "c", "p">>

\* the build sent "complete" once, as its last event
CompleteOnceAndLast ==
    /\ Len(EventsOf("complete")) = 1
    /\ run.events[Len(run.events)].stage = "complete"

\* C36 as stated, for a live set that is not empty: every build called
\* with a progress callback that returns without raising has sent exactly
\* one "complete" event, and that event is the last one it sent.
C36_CompleteOnceWhenReturned ==
    (AtReturn /\ run.mode = "callback" /\ Returned(run.outcome) /\ run.live # {}) =>
        CompleteOnceAndLast

\* C36 as amended: a build called with a progress callback that returns
\* after it persisted the store, or because the store is up to date, has
\* sent exactly one "complete" event, the last one it sent; a build that
\* returns because there is nothing to index has sent none.
C36_CompleteOnceWhenDone ==
    (AtReturn /\ run.mode = "callback" /\ Returned(run.outcome)) =>
        IF run.outcome \in {"saved", "up_to_date"}
        THEN CompleteOnceAndLast
        ELSE EventsOf("complete") = <<>>

\* a build found the store up to date and sent "complete" after "discovery"
C36_Witness ==
    /\ AtReturn
    /\ run.mode = "callback"
    /\ run.outcome = "up_to_date"
    /\ Len(run.events) = 2
    /\ run.events[2].stage = "complete"

\* the status says the initialization is over
Terminal == mgr.status.stage \in {"complete", "error"}

\* C37: a run that start_initialization has started, and whose init_fn
\* returns or raises, ends with the status at COMPLETE or ERROR; and a
\* status that has reached COMPLETE or ERROR is not written again by that
\* run: only the first report of a later run changes it.
C37_RunReachesFinalStatus ==
    /\ \A t \in Threads :
          (thr[t].pc = "begin") ~> (thr[t].pc = "done" /\ Terminal)
    /\ [][(Terminal /\ mgr'.status # mgr.status) =>
              /\ mgr'.status = InitStatus("loading_model", 0, 0)
              /\ \E t \in Threads : thr[t].after = "init_fn" /\ thr[t].emitted = 0]_vars

\* the first run ended in ERROR, and the second has ended in COMPLETE
C37_Witness ==
    /\ thr[1].pc = "done" /\ thr[1].initRaised
    /\ thr[2].pc = "done" /\ ~thr[2].initRaised
    /\ mgr.status = InitStatus("complete", 1, 1)

\* C38: in TUI mode no search and no favorites read of the store runs
\* while the background build is between the writes of its save; while the
\* status is neither COMPLETE nor ERROR a key other than quit is ignored;
\* and the build writes no artifact once the status is COMPLETE.
C38_NoReadDuringBuildWrites ==
    /\ [](ui.pc = "read" \/ rpc # "idle" => pc \notin SavePositions)
    /\ [][(ui.pc = "key" /\ ui'.pc # "key" /\ ~Terminal) =>
              /\ ui'.pc \in {"top", "quit"}
              /\ rpc' = "idle"]_vars
    /\ [][mgr.status.stage = "complete" => disk' = disk]_vars

\* a search loads the store the build has just persisted, run_init not yet
\* over
C38_Witness ==
    /\ ui.pc = "read"
    /\ rpc = "read_chunks"
    /\ run.outcome = "saved"
    /\ mgr.status.stage = "complete"
    /\ Running

\* C39: a subscriber is always passed the status written by the call of
\* _update_status that invokes it, whatever another thread writes meanwhile.
C39_SubscriberGetsWrittenStatus ==
    /\ \A t \in Threads : thr[t].pc = "in_callback" => thr[t].arg = thr[t].upd
    /\ (ui.pc = "mark_notify" /\ Len(ui.todo) < Len(mgr.callbacks)) =>
            ui.arg = InitStatus("complete", 1, 1)

\* C40, for a store whose index holds a vector: every result of a search
\* is the entry stored at a position the index returned as a neighbor; the
\* label -1 of a missing neighbor and a label outside the entries give no
\* result; no entry is returned twice.
C40_ResultsAreRealNeighbors ==
    (srch.outcome = "found" /\ faissFile.rows # <<>>) =>
        /\ \A i \in 1..Len(srch.results) :
              /\ srch.results[i].idx \in 0..(Len(chunksFile.chunks) - 1)
              /\ srch.results[i].dist # FloatMax
              /\ srch.results[i].chunk = chunksFile.chunks[srch.results[i].idx + 1]
        /\ \A i, j \in 1..Len(srch.results) :
              i # j => srch.results[i].chunk # srch.results[j].chunk

====
